---------------------------- MODULE Spec2Model ----------------------------
(***************************************************************************)
(* A model of the static-shape array kernels of jax/_src/numpy/lax_numpy.py *)
(* (searchsorted, pad, histogram, histogramdd, repeat, insert, delete,      *)
(* fill_diagonal, digitize), and of the lowering pass of the mosaic_gpu     *)
(* dialect that tests/mosaic/gpu_dialect_test.py exercises.                *)
(*                                                                         *)
(* Python sequences are 0-based; a 1-D array is a TLA+ sequence and the    *)
(* element the code calls x[i] is At(x, i).  Element values are integers   *)
(* (no NaN, no floating-point rounding).                                    *)
(***************************************************************************)
EXTENDS Integers, Sequences, FiniteSets, TLC

VARIABLES
  \* ---- searchsorted(a, v, side, method=...) ----
  sorted_arr,   \* the reference array a
  query,        \* the query array v (1-D)
  side,         \* "left" | "right"
  low,          \* _searchsorted_via_scan: carry[0], one entry per query element
  high,         \* _searchsorted_via_scan: carry[1], one entry per query element
  level,        \* _searchsorted_via_scan: iterations of body_fun done so far
  out,          \* method -> returned index array, or None before the call returns
  \* ---- repeat(a, repeats, axis, total_repeat_length=...) ----
  rp_a,                    \* a
  rp_repeats,              \* repeats (a 0-d or 1-D array of counts)
  rp_axis,                 \* axis: NoneArg or Some(i)
  rp_total_repeat_length,  \* total_repeat_length: NoneArg or Some(L)
  rp_result,               \* what the call returned, NotCalled before it
  \* ---- pad(array, pad_width, mode, **kwargs) ----
  pd_array,      \* array
  pd_pad_width,  \* pad_width as given (a 0-d, 1-D or 2-D array of numbers)
  pd_mode,       \* mode (a string)
  pd_kwargs,     \* the keyword arguments, each NoneArg (not given) or Some(v)
  pd_padded,     \* what the call returned, NotCalled before it
  \* ---- histogram(a, bins, range, weights) ----
  hs_a,          \* the sample a (1-D), in multiples of 1/hs_unit
  hs_bins,       \* bins: a 1-D array of edges, or a 0-d bin count
  hs_range,      \* range: NoneArg or Some(<<lo, hi>>), in multiples of 1/hs_unit
  hs_weights,    \* weights: NoneArg or Some(w)
  hs_unit,       \* how many model units make 1.0
  hs_result,     \* what the call returned, NotCalled before it
  \* ---- histogramdd(sample, bins, range, weights) ----
  dd_sample,     \* sample, an (N, D) array, in multiples of 1/dd_unit
  dd_bins,       \* bins: BinsInt(k) or BinsList(one entry per dimension)
  dd_range,      \* range: NoneArg or Some(one entry per dimension)
  dd_weights,    \* weights: NoneArg or Some(w)
  dd_unit,       \* how many model units make 1.0
  dd_result,     \* what the call returned, NotCalled before it
  \* ---- insert(arr, obj, values, axis), delete(arr, obj, axis, ...) ----
  ed_arr,            \* arr
  ed_obj,            \* obj: an integer array (0-d or 1-D), a mask or a slice
  ed_values,         \* values (insert only)
  ed_axis,           \* axis: NoneArg or Some(i)
  ed_assume_unique,  \* assume_unique_indices (delete only)
  ed_out,            \* what the call returned, NotCalled before it
  ed_back,           \* what delete returned on the array insert returned
  \* ---- fill_diagonal(a, val, wrap, inplace=...) ----
  fd_a,          \* a
  fd_val,        \* val (an array of any rank)
  fd_wrap,       \* wrap
  fd_inplace,    \* inplace
  fd_result,     \* what the call returned, NotCalled before it
  \* ---- digitize(x, bins, right, method=...) ----
  dg_x,          \* x (1-D)
  dg_bins,       \* bins, an array
  dg_right,      \* right
  dg_method,     \* method: NoneArg or Some(name)
  dg_result,     \* what the call returned, NotCalled before it
  \* ---- _broadcast_to_pairs(nvals, nd, name) ----
  bp_nvals,      \* nvals as given: a nested tuple that is an array, or ragged
  bp_nd,         \* nd
  bp_result,     \* what the call returned, NotCalled before it
  \* ---- lower_mgpu_dialect(module, launch_context) ----
  mg_module,     \* the body of the module: a sequence of operations
  mg_lowered,    \* "no" before the pass runs, then "yes" or the exception raised
  \* ---- _pad_symmetric_or_reflect on one axis: the two build_padding loops ----
  ch_a,            \* the array as given, 1-D of length axis_size
  ch_pad_width,    \* pad_width[i]: <<before, after>>
  ch_mode,         \* "reflect" | "symmetric"
  ch_reflect_type, \* "even" | "odd"
  ch_array,        \* build_padding: array, padded so far
  ch_padding,      \* build_padding: padding, the width that remains on this side
  ch_edge,         \* build_padding: edge
  ch_pc,           \* "before" | "after": the side being built; then "done"
  \* ---- one operation called twice on arguments of the same shapes ----
  tw_op,           \* the operation called twice, "none" before
  tw_args,         \* <<arguments of the first call, arguments of the second>>
  tw_out,          \* <<what the first call returned, what the second returned>>
  tw_scan          \* the bisection of each call: <<low, high, iterations run, pc>>

searchVars == <<sorted_arr, query, side, low, high, level, out>>
repeatVars == <<rp_a, rp_repeats, rp_axis, rp_total_repeat_length, rp_result>>

padVars == <<pd_array, pd_pad_width, pd_mode, pd_kwargs, pd_padded>>

histVars == <<hs_a, hs_bins, hs_range, hs_weights, hs_unit, hs_result>>

ddVars == <<dd_sample, dd_bins, dd_range, dd_weights, dd_unit, dd_result>>

editVars ==
  <<ed_arr, ed_obj, ed_values, ed_axis, ed_assume_unique, ed_out, ed_back>>

fillVars == <<fd_a, fd_val, fd_wrap, fd_inplace, fd_result>>

digitizeVars == <<dg_x, dg_bins, dg_right, dg_method, dg_result>>

pairsVars == <<bp_nvals, bp_nd, bp_result>>

lowerVars == <<mg_module, mg_lowered>>

chunkVars == <<ch_a, ch_pad_width, ch_mode, ch_reflect_type, ch_array, ch_padding, ch_edge, ch_pc>>

twiceVars == <<tw_op, tw_args, tw_out, tw_scan>>

vars ==
  <<searchVars, repeatVars, padVars, histVars, ddVars, editVars, fillVars,
    digitizeVars, pairsVars,
    lowerVars,
    chunkVars,
    twiceVars>>

\* the variables of the other components
notSearch ==
  <<repeatVars, padVars, histVars, ddVars, editVars,
    fillVars, digitizeVars, pairsVars,
    lowerVars,
    chunkVars,
    twiceVars>>
notRepeat ==
  <<searchVars, padVars, histVars, ddVars, editVars,
    fillVars, digitizeVars, pairsVars,
    lowerVars,
    chunkVars,
    twiceVars>>
notPad ==
  <<searchVars, repeatVars, histVars, ddVars, editVars,
    fillVars, digitizeVars, pairsVars,
    lowerVars,
    chunkVars,
    twiceVars>>
notHist ==
  <<searchVars, repeatVars, padVars, ddVars, editVars,
    fillVars, digitizeVars, pairsVars,
    lowerVars,
    chunkVars,
    twiceVars>>
notDd ==
  <<searchVars, repeatVars, padVars, histVars, editVars,
    fillVars, digitizeVars, pairsVars,
    lowerVars,
    chunkVars,
    twiceVars>>
notEdit ==
  <<searchVars, repeatVars, padVars, histVars, ddVars,
    fillVars, digitizeVars, pairsVars,
    lowerVars,
    chunkVars,
    twiceVars>>
notFill ==
  <<searchVars, repeatVars, padVars, histVars, ddVars, editVars,
    digitizeVars, pairsVars,
    lowerVars,
    chunkVars,
    twiceVars>>
notDigitize ==
  <<searchVars, repeatVars, padVars, histVars, ddVars, editVars, fillVars,
    pairsVars,
    lowerVars,
    chunkVars,
    twiceVars>>
notPairs ==
  <<searchVars, repeatVars, padVars, histVars, ddVars, editVars, fillVars,
    digitizeVars,
    lowerVars,
    chunkVars,
    twiceVars>>

notLower ==
  <<searchVars, repeatVars, padVars, histVars, ddVars, editVars, fillVars,
    digitizeVars, pairsVars,
    chunkVars,
    twiceVars>>

notChunk ==
  <<searchVars, repeatVars, padVars, histVars, ddVars, editVars, fillVars,
    digitizeVars, pairsVars,
    lowerVars,
    twiceVars>>

notTwice ==
  <<searchVars, repeatVars, padVars, histVars, ddVars, editVars, fillVars,
    digitizeVars, pairsVars,
    lowerVars,
    chunkVars>>

\* a method that has not returned yet (a returned index array has the query's
\* length, which is at least 1 here)
None == <<>>

(***************************************************************************)
(* Bounds of the model.                                                    *)
(***************************************************************************)
MaxRefLen == 3      \* longest reference array of searchsorted
MaxQueryLen == 2    \* longest query array of searchsorted
MaxSearchVal == 2   \* reference and query values are 0..MaxSearchVal
MaxRepLen == 3      \* longest array given to repeat
MaxRepVal == 2      \* elements of an array given to repeat are 1..MaxRepVal
MaxCount == 2
MaxTotal == 4        \* largest total_repeat_length
MaxEditLen == 3      \* longest axis of an array given to insert and delete
MaxInserts == 2      \* most indices in one obj of insert and delete
MaxFillLen == 3      \* longest axis of a 1-D or 2-D array given to fill_diagonal
MaxDigitizeVal == 3  \* largest bin edge of digitize
MaxDigitizeLen == 3  \* most bin edges of digitize
MaxPairsNd == 3      \* largest nd given to _broadcast_to_pairs
MaxPadLen == 3      \* longest axis of a padded array
MaxPadWidth == 3    \* widest padding on one side
MaxNegWidth == 1    \* most negative pad width tried
MaxBodyLen == 2     \* most operations in the body of a lowered module
MaxBarriers == 2    \* most barriers one initialize_barrier makes
MaxFairLen == 2     \* longest axis of the chunk loops run under fairness
MaxHistVal == 3     \* largest sample, edge and range value of histogram
MaxSamples == 2     \* most samples
MaxEdges == 3       \* most explicit bin edges
MaxBins == 2        \* largest bin count
MaxDdVal == 2       \* largest coordinate and edge value of histogramdd
MaxDdEdges == 2     \* most explicit bin edges per dimension of histogramdd
MaxDdSamples == 2   \* most samples of histogramdd       \* repeat counts are 0..MaxCount

(***************************************************************************)
(* Generic helpers on Python-style sequences.                              *)
(***************************************************************************)
At(x, i) == x[i + 1]

\* the same sequence, as an explicit tuple
Mat(x) == SubSeq(x, 1, Len(x))

SeqsUpTo(S, n) == UNION {[1..k -> S] : k \in 0..n}

IsSorted(x) == \A i \in 1..(Len(x) - 1) : x[i] <= x[i + 1]

RECURSIVE Pow2(_)
Pow2(k) == IF k = 0 THEN 1 ELSE 2 * Pow2(k - 1)

zeros(n) == Mat([zi \in 1..n |-> 0])

(***************************************************************************)
(* _searchsorted_via_scan                                                  *)
(***************************************************************************)
\* ceil(log2(n)): the levels counted without the + 1
n_levels_of_len(n) == CHOOSE k \in 0..(n + 1) :
                        /\ Pow2(k) >= n
                        /\ \A j \in 0..(k - 1) : Pow2(j) < n

\* int(np.ceil(np.log2(len(sorted_arr) + 1)))
n_levels(n) == CHOOSE k \in 0..(n + 1) :
                 /\ Pow2(k) >= n + 1
                 /\ \A j \in 0..(k - 1) : Pow2(j) < n + 1

\* The midpoint is computed in the unsigned type, in which low + high cannot
\* wrap for indices of the signed type: it is the exact floor((low + high)/2).
scan_mid(lo, hi) == (lo + hi) \div 2

\* the comparators of the two sides exchanged
scan_op_swapped(sd, q, x) == IF sd = "left" THEN q < x ELSE q <= x

\* op = _sort_le_comparator if side == 'left' else _sort_lt_comparator
scan_op(sd, q, x) == IF sd = "left" THEN q <= x ELSE q < x

\* go_left = op(query, sorted_arr[mid])
go_left(arr, sd, q, lo, hi) == scan_op(sd, q, At(arr, scan_mid(lo, hi)))

\* the bisection that moves low past the probed index
body_fun_low_past_mid(arr, sd, q, lo, hi) ==
  LET mid == scan_mid(lo, hi)
      gl == go_left(arr, sd, q, lo, hi)
  IN  <<IF gl THEN lo ELSE mid + 1, IF gl THEN mid ELSE hi>>

\* body_fun for one query element: the new (low, high)
body_fun(arr, sd, q, lo, hi) ==
  LET mid == scan_mid(lo, hi)
      gl == go_left(arr, sd, q, lo, hi)
  IN  <<IF gl THEN lo ELSE mid, IF gl THEN mid ELSE hi>>

RECURSIVE scan_loop(_, _, _, _, _, _)
scan_loop(arr, sd, q, lo, hi, k) ==
  IF k = 0 THEN <<lo, hi>>
  ELSE LET st == body_fun(arr, sd, q, lo, hi)
       IN  scan_loop(arr, sd, q, st[1], st[2], k - 1)

\* the whole scan in one step (unroll = n_levels), vectorized over the query
_searchsorted_via_scan(arr, qs, sd) ==
  Mat([i \in 1..Len(qs) |->
     scan_loop(arr, sd, qs[i], 0, Len(arr), n_levels(Len(arr)))[2]])

(***************************************************************************)
(* _searchsorted_via_sort                                                  *)
(***************************************************************************)
\* stable argsort: argsort(x)[k] is the (0-based) position of the k-th
\* smallest element, ties in order of position
argsort(x) ==
  LET before(p) == Cardinality({j \in 1..Len(x) :
                      x[j] < x[p] \/ (x[j] = x[p] /\ j < p)})
  IN  Mat([k \in 1..Len(x) |->
             (CHOOSE p \in 1..Len(x) : before(p) = k - 1) - 1])

\* zeros_like(idx).at[argsort(x)].set(idx), idx = iota(len(x))
_rank(x) ==
  LET perm == argsort(x)
  IN  Mat([p \in 1..Len(x) |->
             IF \E k \in 1..Len(x) : perm[k] = p - 1
             THEN (CHOOSE k \in 1..Len(x) : perm[k] = p - 1) - 1
             ELSE 0])

\* both sides ranking the queries after the reference elements
_searchsorted_via_sort_same_order(arr, qs, sd) ==
  LET index == IF sd = "left"
               THEN SubSeq(_rank(arr \o qs), Len(arr) + 1, Len(arr) + Len(qs))
               ELSE SubSeq(_rank(arr \o qs), Len(arr) + 1, Len(arr) + Len(qs))
      rq == _rank(qs)
  IN  Mat([i \in 1..Len(qs) |-> index[i] - rq[i]])

_searchsorted_via_sort(arr, qs, sd) ==
  LET index == IF sd = "left"
               THEN SubSeq(_rank(qs \o arr), 1, Len(qs))
               ELSE SubSeq(_rank(arr \o qs), Len(arr) + 1, Len(arr) + Len(qs))
      rq == _rank(qs)
  IN  Mat([i \in 1..Len(qs) |-> index[i] - rq[i]])

(***************************************************************************)
(* _searchsorted_via_compare_all                                           *)
(***************************************************************************)
\* op = _sort_lt_comparator if side == 'left' else _sort_le_comparator,
\* applied as op(sorted_arr[j], query) and summed over j
_searchsorted_via_compare_all(arr, qs, sd) ==
  Mat([i \in 1..Len(qs) |->
     Cardinality({j \in 1..Len(arr) :
        IF sd = "left" THEN arr[j] < qs[i] ELSE arr[j] <= qs[i]})])

(***************************************************************************)
(* searchsorted: the dispatch on method                                    *)
(***************************************************************************)
Methods == {"scan", "scan_unrolled", "sort", "compare_all"}

\* if a.shape[0] == 0: return zeros_like(v)
searchsorted(arr, qs, sd, method) ==
  IF Len(arr) = 0 THEN zeros(Len(qs))
  ELSE CASE method = "scan" -> _searchsorted_via_scan(arr, qs, sd)
         [] method = "scan_unrolled" -> _searchsorted_via_scan(arr, qs, sd)
         [] method = "sort" -> _searchsorted_via_sort(arr, qs, sd)
         [] method = "compare_all" -> _searchsorted_via_compare_all(arr, qs, sd)

(***************************************************************************)
(* N-dimensional arrays: a shape (a tuple of axis lengths) and the element *)
(* at every index tuple (0-based).  Axes are numbered from 0 as in the     *)
(* code; axis i has length At(shape, i).                                   *)
(***************************************************************************)
MaxOf(S) == IF S = {} THEN 0 ELSE CHOOSE m \in S : \A x \in S : x <= m

SeqRange(x) == {x[k] : k \in DOMAIN x}

Indices(shape) ==
  {idx \in [1..Len(shape) -> 0..(MaxOf(SeqRange(shape)) - 1)] :
     \A k \in 1..Len(shape) : idx[k] < shape[k]}

MkArray(shape, F(_)) ==
  [shape |-> Mat(shape), elems |-> [idx \in Indices(shape) |-> F(idx)] @@ <<>>]

ndim(A) == Len(A.shape)

\* a 0-d array
Scalar(v) == [shape |-> <<>>, elems |-> [idx \in {<<>>} |-> v] @@ <<>>]

\* a 1-D array from a sequence, and back
Arr1(x) == MkArray(<<Len(x)>>, LAMBDA idx : x[idx[1] + 1])
Seq1(A) == Mat([k \in 1..A.shape[1] |-> A.elems[<<k - 1>>]])

\* a 2-D array from a sequence of rows of one length (at least one row)
Arr2(rows) == MkArray(<<Len(rows), Len(rows[1])>>,
                      LAMBDA idx : rows[idx[1] + 1][idx[2] + 1])

RECURSIVE SeqSum(_)
SeqSum(x) == IF x = <<>> THEN 0 ELSE x[1] + SeqSum(Tail(x))

RECURSIVE SeqProd(_)
SeqProd(x) == IF x = <<>> THEN 1 ELSE x[1] * SeqProd(Tail(x))

size(A) == SeqProd(A.shape)

\* row-major (order 'C') position of an index tuple
RECURSIVE FlatIndex(_, _)
FlatIndex(idx, shape) ==
  IF shape = <<>> THEN 0
  ELSE idx[1] * SeqProd(Tail(shape)) + FlatIndex(Tail(idx), Tail(shape))

\* ravel: the elements in row-major order, as a sequence
ravel(A) ==
  Mat([k \in 1..size(A) |->
     A.elems[CHOOSE idx \in Indices(A.shape) : FlatIndex(idx, A.shape) = k - 1]])

\* reshape of a flat sequence to a shape of the same size
reshape(x, shape) == MkArray(shape, LAMBDA idx : x[FlatIndex(idx, shape) + 1])

\* Python's reading of a negative index; None as a stop is passed as the length
canon_index(i, n) == IF i < 0 THEN i + n ELSE i

\* lax_slicing.slice_in_dim(A, start, limit, axis), 0 <= start <= limit <= n
slice_in_dim(A, start, limit, axis) ==
  LET n == At(A.shape, axis)
      s == canon_index(start, n)
      l == canon_index(limit, n)
  IN  MkArray([A.shape EXCEPT ![axis + 1] = l - s],
              LAMBDA idx : A.elems[[idx EXCEPT ![axis + 1] = @ + s]])

\* lax.concatenate([A, B], dimension=axis)
concat2(A, B, axis) ==
  LET na == At(A.shape, axis)
  IN  MkArray([A.shape EXCEPT ![axis + 1] = na + At(B.shape, axis)],
              LAMBDA idx : IF idx[axis + 1] < na THEN A.elems[idx]
                           ELSE B.elems[[idx EXCEPT ![axis + 1] = @ - na]])

RECURSIVE concatenate(_, _)
concatenate(parts, axis) ==
  IF Len(parts) = 1 THEN parts[1]
  ELSE concat2(parts[1], concatenate(Tail(parts), axis), axis)

\* flip(x, axis)
flip(A, axis) ==
  LET n == At(A.shape, axis)
  IN  MkArray(A.shape,
              LAMBDA idx : A.elems[[idx EXCEPT ![axis + 1] = n - 1 - @]])

\* lax.pad(A, value, [(low, high, 0) ...]): widths is one <<low, high>> per axis
lax_pad(A, value, widths) ==
  MkArray([k \in 1..ndim(A) |-> widths[k][1] + A.shape[k] + widths[k][2]],
          LAMBDA idx :
            LET src == [k \in 1..ndim(A) |-> idx[k] - widths[k][1]]
            IN  IF \A k \in 1..ndim(A) : src[k] >= 0 /\ src[k] < A.shape[k]
                THEN A.elems[src] ELSE value)

\* the result of a call: an array, or the exception raised (err # "")
Ok(A) == [err |-> "", arr |-> A]
Err(e) == [err |-> e, arr |-> Scalar(0)]

\* an optional argument: None, or a value
NoneArg == <<>>
Some(v) == <<v>>

\* an array of the given shape holding 1, 2, 3, ... in row-major order
Iota(shape) == MkArray(shape, LAMBDA idx : FlatIndex(idx, shape) + 1)

(***************************************************************************)
(* Index primitives used by the scatter-edit kernels (1-D, on sequences).  *)
(***************************************************************************)
\* roll(x, shift=1)
roll(x) == Mat([rk \in 1..Len(x) |-> x[((rk - 2) % Len(x)) + 1]])

\* reductions.cumsum
cumsum(x) == Mat([ck \in 1..Len(x) |-> SeqSum(SubSeq(x, 1, ck))])

\* buf.at[indices].add(updates): updates accumulate on equal indices, a
\* negative index counts from the end, an index outside the buffer is dropped
at_add(buf, indices, updates) ==
  LET hits(p) == {u \in 1..Len(indices) :
                    canon_index(indices[u], Len(buf)) = p - 1}
      RECURSIVE SumOver(_)
      SumOver(U) == IF U = {} THEN 0
                    ELSE LET pick == CHOOSE u \in U : TRUE
                         IN  updates[pick] + SumOver(U \ {pick})
  IN  Mat([p \in 1..Len(buf) |-> buf[p] + SumOver(hits(p))])

\* the value jnp.take's default mode ('fill') gives an integer array at an
\* index outside the axis
TakeFill == -2147483647 - 1

\* indexing.take(arr, indices, axis=axis), indices a 1-D sequence
take(A, indices, axis) ==
  LET n == At(A.shape, axis)
  IN  MkArray([A.shape EXCEPT ![axis + 1] = Len(indices)],
              LAMBDA idx :
                LET j == canon_index(indices[idx[axis + 1] + 1], n)
                IN  IF j >= 0 /\ j < n
                    THEN A.elems[[idx EXCEPT ![axis + 1] = j]]
                    ELSE TakeFill)

\* np.broadcast_to(repeats, [n]) of a 1-D sequence: <<>> when not broadcastable
broadcast_to_len(x, n) ==
  IF Len(x) = n THEN x
  ELSE IF Len(x) = 1 THEN Mat([k \in 1..n |-> x[1]])
  ELSE <<>>

(***************************************************************************)
(* _repeat(a, repeats=, axis=, total_repeat_length=)                       *)
(* repeats is an array (0-d or 1-D); axis and total_repeat_length are      *)
(* optional (NoneArg or Some(v)).                                           *)
(***************************************************************************)
\* the fast path with the new axis put before `axis` instead of after it
_repeat_scalar_aux_before(arr, k, axis) ==
  LET aux_axis == axis
      aux_shape == [j \in 1..(ndim(arr) + 1) |->
                      IF j <= aux_axis THEN arr.shape[j]
                      ELSE IF j = aux_axis + 1 THEN k
                      ELSE arr.shape[j - 1]]
      aux == MkArray(aux_shape,
                LAMBDA idx : arr.elems[[j \in 1..ndim(arr) |->
                                IF j <= aux_axis THEN idx[j] ELSE idx[j + 1]]])
      result_shape == [arr.shape EXCEPT ![axis + 1] = @ * k]
  IN  reshape(ravel(aux), result_shape)

\* the fast path for a scalar repeats: broadcast_in_dim to a new axis after
\* `axis`, then reshape
_repeat_scalar(arr, k, axis) ==
  LET aux_axis == axis + 1
      aux_shape == [j \in 1..(ndim(arr) + 1) |->
                      IF j <= aux_axis THEN arr.shape[j]
                      ELSE IF j = aux_axis + 1 THEN k
                      ELSE arr.shape[j - 1]]
      aux == MkArray(aux_shape,
                LAMBDA idx : arr.elems[[j \in 1..ndim(arr) |->
                                IF j <= aux_axis THEN idx[j] ELSE idx[j + 1]]])
      result_shape == [arr.shape EXCEPT ![axis + 1] = @ * k]
  IN  reshape(ravel(aux), result_shape)

\* the zero buffer sized by sum(repeats) instead of total_repeat_length
gather_indices_sum_length(repeats, total_repeat_length) ==
  LET exclusive_repeats == [roll(repeats) EXCEPT ![1] = 0]
      scatter_indices == cumsum(exclusive_repeats)
      block_split_indicators ==
        at_add(zeros(SeqSum(repeats)), scatter_indices,
               [k \in 1..Len(scatter_indices) |-> 1])
  IN  Mat([k \in 1..SeqSum(repeats) |->
             cumsum(block_split_indicators)[k] - 1])

\* the rolled counts used without resetting the first entry to 0
gather_indices_no_reset(repeats, total_repeat_length) ==
  LET exclusive_repeats == roll(repeats)
      scatter_indices == cumsum(exclusive_repeats)
      block_split_indicators ==
        at_add(zeros(total_repeat_length), scatter_indices,
               [k \in 1..Len(scatter_indices) |-> 1])
  IN  Mat([k \in 1..total_repeat_length |->
             cumsum(block_split_indicators)[k] - 1])

\* the gather indices of the general path
\* (exclusive_repeats, scatter_indices, block_split_indicators, gather_indices)
gather_indices(repeats, total_repeat_length) ==
  LET exclusive_repeats == [roll(repeats) EXCEPT ![1] = 0]
      scatter_indices == cumsum(exclusive_repeats)
      block_split_indicators ==
        at_add(zeros(total_repeat_length), scatter_indices,
               [k \in 1..Len(scatter_indices) |-> 1])
  IN  Mat([k \in 1..total_repeat_length |->
             cumsum(block_split_indicators)[k] - 1])

_repeat(a, repeats, axis, total_repeat_length) ==
  LET arr == IF axis = NoneArg THEN Arr1(ravel(a)) ELSE a
      ax0 == IF axis = NoneArg THEN 0 ELSE axis[1]
      ax == canon_index(ax0, ndim(arr))
      reps == IF ndim(arr) # 0
              THEN broadcast_to_len(ravel(repeats), At(arr.shape, ax))
              ELSE ravel(repeats)
      total == IF total_repeat_length = NoneArg THEN SeqSum(reps)
               ELSE total_repeat_length[1]
  IN  IF total_repeat_length = NoneArg /\ ndim(repeats) = 0 /\ ndim(arr) # 0
      THEN \* fast path for when repeats is a scalar
           IF ax < 0 \/ ax >= ndim(arr) THEN Err("ValueError")
           ELSE Ok(_repeat_scalar(arr, repeats.elems[<<>>], ax))
      ELSE IF ndim(arr) # 0 /\ Len(reps) # At(arr.shape, ax)
      THEN Err("ValueError")       \* repeats does not broadcast to the axis
      ELSE IF ndim(arr) = 0
      THEN IF Len(reps) = 1
           THEN Ok(Arr1([k \in 1..total |-> arr.elems[<<>>]]))
           ELSE Err("ValueError")
      ELSE IF total = 0
      THEN Ok(MkArray([arr.shape EXCEPT ![ax + 1] = 0], LAMBDA idx : 0))
      ELSE IF At(arr.shape, ax) = 0
      THEN Ok(arr)
      ELSE Ok(take(arr, gather_indices(reps, total), ax))

\* repeat: with no out_sharding and no explicit mesh axis it is _repeat
repeat(a, repeats, axis, total_repeat_length) ==
  _repeat(a, repeats, axis, total_repeat_length)

(***************************************************************************)
(* Padding: the width normalizer and the per-mode kernels.                 *)
(* pad_width, after normalization, is one pair <<before, after>> per axis. *)
(***************************************************************************)
Min(a, b) == IF a <= b THEN a ELSE b

OkPairs(ps) == [err |-> "", pairs |-> Mat(ps)]
ErrPairs(e) == [err |-> e, pairs |-> <<>>]

\* np.asarray of a tuple of nd pairs: an array of shape (nd, 2)
PairsAsArray(ps) ==
  MkArray(<<Len(ps), 2>>, LAMBDA idx : ps[idx[1] + 1][idx[2] + 1])

\* a nested tuple whose entries differ in shape: np.asarray either raises
\* "inhomogeneous shape" or returns an array of objects whose entries have a
\* shape; _broadcast_to_pairs raises TypeError in both cases
Ragged == [ragged |-> TRUE]
IsRagged(nvals) == "ragged" \in DOMAIN nvals

\* every two-column array read as one pair, its first row
_broadcast_to_pairs_first_row(nvals, nd) ==
  IF IsRagged(nvals) THEN ErrPairs("TypeError")
  ELSE IF Len(nvals.shape) = 2 /\ nvals.shape[1] >= 1 /\ nvals.shape[2] = 2
  THEN OkPairs([i \in 1..nd |->
                  <<nvals.elems[<<0, 0>>], nvals.elems[<<0, 1>>]>>])
  ELSE IF nvals.shape = <<2>>
  THEN OkPairs([i \in 1..nd |-> <<nvals.elems[<<0>>], nvals.elems[<<1>>]>>])
  ELSE IF nvals.shape = <<1>>
  THEN OkPairs([i \in 1..nd |-> <<nvals.elems[<<0>>], nvals.elems[<<0>>]>>])
  ELSE IF nvals.shape = <<>>
  THEN OkPairs([i \in 1..nd |-> <<nvals.elems[<<>>], nvals.elems[<<>>]>>])
  ELSE ErrPairs("ValueError")

\* _broadcast_to_pairs(nvals, nd, name), nvals an array or ragged
_broadcast_to_pairs(nvals, nd) ==
  IF IsRagged(nvals) THEN ErrPairs("TypeError")
  ELSE IF nvals.shape = <<nd, 2>>
  THEN OkPairs([i \in 1..nd |->
                  <<nvals.elems[<<i - 1, 0>>], nvals.elems[<<i - 1, 1>>]>>])
  ELSE IF nvals.shape = <<1, 2>>
  THEN OkPairs([i \in 1..nd |->
                  <<nvals.elems[<<0, 0>>], nvals.elems[<<0, 1>>]>>])
  ELSE IF nvals.shape = <<2>>
  THEN OkPairs([i \in 1..nd |-> <<nvals.elems[<<0>>], nvals.elems[<<1>>]>>])
  ELSE IF nvals.shape = <<1>>
  THEN OkPairs([i \in 1..nd |-> <<nvals.elems[<<0>>], nvals.elems[<<0>>]>>])
  ELSE IF nvals.shape = <<>>
  THEN OkPairs([i \in 1..nd |-> <<nvals.elems[<<>>], nvals.elems[<<>>]>>])
  ELSE ErrPairs("ValueError")

\* _check_no_padding(axis_padding, mode): TRUE when it raises
_check_no_padding(axis_padding) == axis_padding[1] > 0 \/ axis_padding[2] > 0

(***************************************************************************)
(* _pad_constant                                                           *)
(***************************************************************************)
\* broadcast_to(constant_values, (nd, 2)) as nd pairs; <<>> when the shape
\* does not broadcast
broadcast_to_nd2(cv, nd) ==
  IF ndim(cv) = 1 /\ cv.shape[1] \in {1, 2}
  THEN Mat([i \in 1..nd |->
              <<cv.elems[<<0>>], cv.elems[<<cv.shape[1] - 1>>]>>])
  ELSE IF ndim(cv) = 2 /\ cv.shape[1] \in {1, nd} /\ cv.shape[2] \in {1, 2}
  THEN Mat([i \in 1..nd |->
              LET r == IF cv.shape[1] = 1 THEN 0 ELSE i - 1
              IN  <<cv.elems[<<r, 0>>], cv.elems[<<r, cv.shape[2] - 1>>]>>])
  ELSE <<>>

\* the low and high widths exchanged
OneSide_swapped(nd, i, lo, hi) ==
  Mat([k \in 1..nd |-> IF k = i + 1 THEN <<hi, lo>> ELSE <<0, 0>>])

\* the widths put on the axis counted from the last one
OneSide_other_axis(nd, i, lo, hi) ==
  Mat([k \in 1..nd |-> IF k = nd - i THEN <<lo, hi>> ELSE <<0, 0>>])

\* the widths of one lax.pad call that pads only one side of axis i
OneSide(nd, i, lo, hi) ==
  Mat([k \in 1..nd |-> IF k = i + 1 THEN <<lo, hi>> ELSE <<0, 0>>])

\* for i in range(nd): pad before with constant_values[i, 0], then after with
\* constant_values[i, 1], each on the array padded so far
RECURSIVE _pad_constant_axes(_, _, _, _)
_pad_constant_axes(array, pad_width, cvals, i) ==
  IF i = ndim(array) THEN array
  ELSE LET nd == ndim(array)
           a1 == IF pad_width[i + 1][1] # 0
                 THEN lax_pad(array, cvals[i + 1][1],
                              OneSide(nd, i, pad_width[i + 1][1], 0))
                 ELSE array
           a2 == IF pad_width[i + 1][2] # 0
                 THEN lax_pad(a1, cvals[i + 1][2],
                              OneSide(nd, i, 0, pad_width[i + 1][2]))
                 ELSE a1
       IN  _pad_constant_axes(a2, pad_width, cvals, i + 1)

_pad_constant(array, pad_width, constant_values) ==
  LET nd == ndim(array)
      cvals == broadcast_to_nd2(constant_values, nd)
  IN  IF ndim(constant_values) = 0
      THEN Ok(lax_pad(array, constant_values.elems[<<>>], pad_width))
      ELSE IF ndim(constant_values) = 1 /\ constant_values.shape[1] = 1
      THEN Ok(lax_pad(array, constant_values.elems[<<0>>], pad_width))
      ELSE IF ndim(constant_values) = 1 /\ constant_values.shape[1] # 2
      THEN Err("ValueError")
      ELSE IF Len(cvals) # nd
      THEN Err("ValueError")      \* broadcast_to fails
      ELSE Ok(_pad_constant_axes(array, pad_width, cvals, 0))

(***************************************************************************)
(* _pad_wrap                                                               *)
(***************************************************************************)
\* the head of the array taken where the tail belongs
_pad_wrap_axis_short_tail(array, axis_padding, i) ==
  LET sz == At(array.shape, i)
      left_repeats == axis_padding[1] \div sz
      left_remainder == axis_padding[1] % sz
      right_repeats == axis_padding[2] \div sz
      right_remainder == axis_padding[2] % sz
      total_repeats == left_repeats + right_repeats + 1
      parts ==
        (IF left_remainder > 0
         THEN <<slice_in_dim(array, 0, left_remainder, i)>>
         ELSE <<>>)
        \o [k \in 1..total_repeats |-> array]
        \o (IF right_remainder > 0
            THEN <<slice_in_dim(array, 0, right_remainder, i)>>
            ELSE <<>>)
  IN  concatenate(parts, i)

\* one axis of non-zero length: the parts and their concatenation
_pad_wrap_axis(array, axis_padding, i) ==
  LET sz == At(array.shape, i)
      left_repeats == axis_padding[1] \div sz
      left_remainder == axis_padding[1] % sz
      right_repeats == axis_padding[2] \div sz
      right_remainder == axis_padding[2] % sz
      total_repeats == left_repeats + right_repeats + 1
      parts ==
        (IF left_remainder > 0
         THEN <<slice_in_dim(array, sz - left_remainder, sz, i)>>
         ELSE <<>>)
        \o [k \in 1..total_repeats |-> array]
        \o (IF right_remainder > 0
            THEN <<slice_in_dim(array, 0, right_remainder, i)>>
            ELSE <<>>)
  IN  concatenate(parts, i)

RECURSIVE _pad_wrap_axes(_, _, _)
_pad_wrap_axes(array, pad_width, i) ==
  IF i = ndim(array) THEN Ok(array)
  ELSE IF At(array.shape, i) = 0
  THEN IF _check_no_padding(pad_width[i + 1]) THEN Err("ValueError")
       ELSE _pad_wrap_axes(array, pad_width, i + 1)
  ELSE _pad_wrap_axes(_pad_wrap_axis(array, pad_width[i + 1], i),
                      pad_width, i + 1)

_pad_wrap(array, pad_width) == _pad_wrap_axes(array, pad_width, 0)

(***************************************************************************)
(* _pad_symmetric_or_reflect                                               *)
(***************************************************************************)
\* 2 * edge - x, edge of length 1 along axis i broadcast against x
odd_reflection(edge, x, i) ==
  MkArray(x.shape,
          LAMBDA idx : 2 * edge.elems[[idx EXCEPT ![i + 1] = 0]] - x.elems[idx])

\* the chunk taken without the reflect offset
padding_chunk_no_offset(array, before, offset, curr_pad, mode, axis_size, i) ==
  IF before
  THEN slice_in_dim(array, 0, curr_pad, i)
  ELSE slice_in_dim(array, -curr_pad, At(array.shape, i), i)

\* the chunk of the after side taken without the reflect offset
padding_chunk_after_no_offset(array, before, offset, curr_pad, mode, axis_size, i) ==
  IF before
  THEN slice_in_dim(array, offset, offset + curr_pad, i)
  ELSE slice_in_dim(array, -curr_pad, At(array.shape, i), i)

\* one chunk of build_padding: the slice that is mirrored, before the flip
padding_chunk(array, before, offset, curr_pad, mode, axis_size, i) ==
  IF before
  THEN slice_in_dim(array, offset, offset + curr_pad, i)
  ELSE slice_in_dim(array, -(curr_pad + offset),
                    IF mode = "symmetric" \/ axis_size = 1
                    THEN At(array.shape, i) ELSE -1, i)

\* the iteration with the reflect offset also on an axis of length 1
build_padding_step_offset_always(array, padding, before, edge, mode, reflect_type, axis_size, i) ==
  LET offset == IF mode = "reflect" THEN 1 ELSE 0
      curr_pad == Min(padding, axis_size - offset)
      x0 == flip(padding_chunk(array, before, offset, curr_pad, mode,
                               axis_size, i), i)
      x == IF reflect_type = "odd" THEN odd_reflection(edge, x0, i)
           ELSE x0
      new_edge ==
        IF reflect_type = "odd" /\ axis_size > 1
        THEN IF before THEN slice_in_dim(x, 0, 1, i)
             ELSE slice_in_dim(x, -1, At(x.shape, i), i)
        ELSE edge
      new_array == IF before THEN concat2(x, array, i)
                   ELSE concat2(array, x, i)
  IN  [array |-> new_array, padding |-> padding - curr_pad, edge |-> new_edge]

\* the iteration that never updates the edge
build_padding_step_first_edge(array, padding, before, edge, mode, reflect_type, axis_size, i) ==
  LET offset == IF mode = "reflect" /\ axis_size > 1 THEN 1 ELSE 0
      curr_pad == Min(padding, axis_size - offset)
      x0 == flip(padding_chunk(array, before, offset, curr_pad, mode,
                               axis_size, i), i)
      x == IF reflect_type = "odd" THEN odd_reflection(edge, x0, i)
           ELSE x0
      new_array == IF before THEN concat2(x, array, i)
                   ELSE concat2(array, x, i)
  IN  [array |-> new_array, padding |-> padding - curr_pad, edge |-> edge]

\* one iteration of the while loop of build_padding: the array with the new
\* chunk, the padding that remains and the edge of the next iteration
build_padding_step(array, padding, before, edge, mode, reflect_type, axis_size, i) ==
  LET offset == IF mode = "reflect" /\ axis_size > 1 THEN 1 ELSE 0
      curr_pad == Min(padding, axis_size - offset)
      x0 == flip(padding_chunk(array, before, offset, curr_pad, mode,
                               axis_size, i), i)
      x == IF reflect_type = "odd" THEN odd_reflection(edge, x0, i)
           ELSE x0
      new_edge ==
        IF reflect_type = "odd" /\ axis_size > 1
        THEN IF before THEN slice_in_dim(x, 0, 1, i)
             ELSE slice_in_dim(x, -1, At(x.shape, i), i)
        ELSE edge
      new_array == IF before THEN concat2(x, array, i)
                   ELSE concat2(array, x, i)
  IN  [array |-> new_array, padding |-> padding - curr_pad, edge |-> new_edge]

\* build_padding(array, padding, before): the while loop, one chunk of at most
\* axis_size - offset elements per iteration, sliced from the array padded so
\* far; axis_size is the length the axis had before any padding
RECURSIVE build_padding_loop(_, _, _, _, _, _, _, _)
build_padding_loop(array, padding, before, edge, mode, reflect_type, axis_size, i) ==
  IF ~(padding > 0) THEN array
  ELSE LET st == build_padding_step(array, padding, before, edge, mode,
                                    reflect_type, axis_size, i)
       IN  build_padding_loop(st.array, st.padding, before, st.edge,
                              mode, reflect_type, axis_size, i)

build_padding(array, padding, before, mode, reflect_type, axis_size, i) ==
  LET edge == IF before THEN slice_in_dim(array, 0, 1, i)
              ELSE slice_in_dim(array, -1, At(array.shape, i), i)
  IN  build_padding_loop(array, padding, before, edge, mode, reflect_type,
                         axis_size, i)

RECURSIVE _pad_symmetric_or_reflect_axes(_, _, _, _, _)
_pad_symmetric_or_reflect_axes(array, pad_width, mode, reflect_type, i) ==
  IF i = ndim(array) THEN Ok(array)
  ELSE IF At(array.shape, i) = 0
  THEN IF _check_no_padding(pad_width[i + 1]) THEN Err("ValueError")
       ELSE _pad_symmetric_or_reflect_axes(array, pad_width, mode,
                                           reflect_type, i + 1)
  ELSE LET axis_size == At(array.shape, i)
           a1 == build_padding(array, pad_width[i + 1][1], TRUE,
                               mode, reflect_type, axis_size, i)
           a2 == build_padding(a1, pad_width[i + 1][2], FALSE,
                               mode, reflect_type, axis_size, i)
       IN  _pad_symmetric_or_reflect_axes(a2, pad_width, mode, reflect_type,
                                          i + 1)

_pad_symmetric_or_reflect(array, pad_width, mode, reflect_type) ==
  _pad_symmetric_or_reflect_axes(array, pad_width, mode, reflect_type, 0)

(***************************************************************************)
(* _pad_edge                                                               *)
(***************************************************************************)
RECURSIVE _pad_edge_axes(_, _, _)
_pad_edge_axes(array, pad_width, i) ==
  IF i = ndim(array) THEN Ok(array)
  ELSE IF At(array.shape, i) = 0
  THEN IF _check_no_padding(pad_width[i + 1]) THEN Err("ValueError")
       ELSE _pad_edge_axes(array, pad_width, i + 1)
  ELSE LET n == At(array.shape, i)
           edge_before == slice_in_dim(array, 0, 1, i)
           pad_before == repeat(edge_before, Scalar(pad_width[i + 1][1]),
                                Some(i), NoneArg).arr
           edge_after == slice_in_dim(array, n - 1, n, i)
           pad_after == repeat(edge_after, Scalar(pad_width[i + 1][2]),
                               Some(i), NoneArg).arr
       IN  _pad_edge_axes(concatenate(<<pad_before, array, pad_after>>, i),
                          pad_width, i + 1)

_pad_edge(array, pad_width) == _pad_edge_axes(array, pad_width, 0)

(***************************************************************************)
(* _pad_empty                                                              *)
(***************************************************************************)
\* zeros_like(array, shape=shape_before) and shape_after, concatenated
\* shape_after built from the before width
_pad_empty_axis_after_as_before(array, axis_padding, i) ==
  LET pad_before ==
        MkArray([array.shape EXCEPT ![i + 1] = axis_padding[1]],
                LAMBDA idx : 0)
      pad_after ==
        MkArray([array.shape EXCEPT ![i + 1] = axis_padding[1]],
                LAMBDA idx : 0)
  IN  concatenate(<<pad_before, array, pad_after>>, i)

_pad_empty_axis(array, axis_padding, i) ==
  LET pad_before ==
        MkArray([array.shape EXCEPT ![i + 1] = axis_padding[1]],
                LAMBDA idx : 0)
      pad_after ==
        MkArray([array.shape EXCEPT ![i + 1] = axis_padding[2]],
                LAMBDA idx : 0)
  IN  concatenate(<<pad_before, array, pad_after>>, i)

RECURSIVE _pad_empty_axes(_, _, _)
_pad_empty_axes(array, pad_width, i) ==
  IF i = ndim(array) THEN array
  ELSE _pad_empty_axes(_pad_empty_axis(array, pad_width[i + 1], i),
                       pad_width, i + 1)

_pad_empty(array, pad_width) == Ok(_pad_empty_axes(array, pad_width, 0))

(***************************************************************************)
(* _pad_linear_ramp                                                        *)
(***************************************************************************)
\* array_creation.linspace(start, stop, num, endpoint=False, dtype=integer,
\* axis=axis), stop given with the axis kept at length 1: num points from
\* start towards stop along the axis, floored to the integer dtype
linspace(start, stop, num, axis) ==
  MkArray([stop.shape EXCEPT ![axis + 1] = num],
          LAMBDA idx :
            LET e == stop.elems[[idx EXCEPT ![axis + 1] = 0]]
            IN  (start * num + idx[axis + 1] * (e - start)) \div num)

RECURSIVE _pad_linear_ramp_axes(_, _, _, _)
_pad_linear_ramp_axes(array, pad_width, end_values, axis) ==
  IF axis = ndim(array) THEN Ok(array)
  ELSE IF At(array.shape, axis) = 0
  THEN Err("TypeError")       \* slice_in_dim(array, 0, 1) is out of bounds
  ELSE LET n == At(array.shape, axis)
           edge_before == slice_in_dim(array, 0, 1, axis)
           edge_after == slice_in_dim(array, -1, n, axis)
           ramp_before == linspace(end_values[axis + 1][1], edge_before,
                                   pad_width[axis + 1][1], axis)
           ramp_after == flip(linspace(end_values[axis + 1][2], edge_after,
                                       pad_width[axis + 1][2], axis), axis)
       IN  _pad_linear_ramp_axes(
             concatenate(<<ramp_before, array, ramp_after>>, axis),
             pad_width, end_values, axis + 1)

_pad_linear_ramp(array, pad_width, end_values) ==
  _pad_linear_ramp_axes(array, pad_width, end_values, 0)

(***************************************************************************)
(* _pad_stats                                                              *)
(***************************************************************************)
\* round(p / q) for q > 0: to the nearest integer, a tie to the even one
round(p, q) ==
  LET f == p \div q
      r == p % q
  IN  IF 2 * r < q THEN f
      ELSE IF 2 * r > q THEN f + 1
      ELSE IF f % 2 = 0 THEN f ELSE f + 1

\* the k-th smallest (k from 1) of a non-empty sequence
kth_smallest(xs, k) == xs[argsort(xs)[k] + 1]

\* stat_func on one non-empty lane, rounded for the integer dtype
stat_func(mode, xs) ==
  LET m == Len(xs)
  IN  CASE mode = "maximum" -> MaxOf(SeqRange(xs))
        [] mode = "minimum" -> -MaxOf({-v : v \in SeqRange(xs)})
        [] mode = "mean" -> round(SeqSum(xs), m)
        [] mode = "median" ->
             IF m % 2 = 1 THEN kth_smallest(xs, (m + 1) \div 2)
             ELSE round(kth_smallest(xs, m \div 2)
                        + kth_smallest(xs, m \div 2 + 1), 2)

\* the elements along axis i through idx
lane(A, idx, i) ==
  Mat([k \in 1..At(A.shape, i) |-> A.elems[[idx EXCEPT ![i + 1] = k - 1]]])

\* stat_func(A, axis=i, keepdims=True) and the conversion to the integer
\* dtype.  Over a zero-length axis amax and amin raise; mean is NaN, and what
\* an integer conversion makes of NaN is not defined (nan_int); median over
\* no elements either raises or is NaN (median_raises)
reduce_stat(A, mode, i, und) ==
  IF At(A.shape, i) = 0
  THEN IF mode \in {"maximum", "minimum"} THEN Err("ValueError")
       ELSE IF mode = "median" /\ und.median_raises THEN Err("ValueError")
       ELSE Ok(MkArray([A.shape EXCEPT ![i + 1] = 1],
                       LAMBDA idx : und.nan_int))
  ELSE Ok(MkArray([A.shape EXCEPT ![i + 1] = 1],
                  LAMBDA idx : stat_func(mode, lane(A, idx, i))))

RECURSIVE _pad_stats_axes(_, _, _, _, _, _)
_pad_stats_axes(array, pad_width, stat_length, mode, und, i) ==
  IF i = ndim(array) THEN Ok(array)
  ELSE IF stat_length # NoneArg
          /\ (stat_length[1][i + 1][1] = 0 \/ stat_length[1][i + 1][2] = 0)
  THEN Err("ValueError")
  ELSE LET array_length == At(array.shape, i)
           length_before == Min(stat_length[1][i + 1][1], array_length)
           length_after == Min(stat_length[1][i + 1][2], array_length)
           stat_before ==
             IF stat_length = NoneArg THEN reduce_stat(array, mode, i, und)
             ELSE reduce_stat(slice_in_dim(array, 0, length_before, i),
                              mode, i, und)
           \* -length_after with length_after = 0 is start 0: the whole axis
           stat_after ==
             IF stat_length = NoneArg THEN stat_before
             ELSE reduce_stat(slice_in_dim(array, -length_after,
                                           array_length, i), mode, i, und)
       IN  IF stat_before.err # "" THEN stat_before
           ELSE IF stat_after.err # "" THEN stat_after
           ELSE LET pad_before ==
                      repeat(stat_before.arr, Scalar(pad_width[i + 1][1]),
                             Some(i), NoneArg).arr
                    pad_after ==
                      repeat(stat_after.arr, Scalar(pad_width[i + 1][2]),
                             Some(i), NoneArg).arr
                IN  _pad_stats_axes(
                      concatenate(<<pad_before, array, pad_after>>, i),
                      pad_width, stat_length, mode, und, i + 1)

_pad_stats(array, pad_width, stat_length, mode, und) ==
  _pad_stats_axes(array, pad_width, stat_length, mode, und, 0)

(***************************************************************************)
(* _pad and pad                                                            *)
(***************************************************************************)
StatModes == {"maximum", "minimum", "mean", "median"}
NamedModes == {"constant", "wrap", "symmetric", "reflect", "edge",
               "linear_ramp", "empty"} \cup StatModes

AnyNegative(pairs) == \E k \in 1..Len(pairs) : pairs[k][1] < 0 \/ pairs[k][2] < 0

\* _pad(array, pad_width, mode, constant_values, stat_length, end_values,
\* reflect_type); pad_width arrives as the tuple of pairs made by pad
_pad(array, pad_width, mode, constant_values, stat_length, end_values, reflect_type, und) ==
  LET nd == ndim(array)
      pw == _broadcast_to_pairs(PairsAsArray(pad_width), nd)
      ev == _broadcast_to_pairs(end_values, nd)
      sl == _broadcast_to_pairs(stat_length[1], nd)
  IN  IF nd = 0 THEN Ok(array)
      ELSE IF pw.err # "" THEN Err(pw.err)
      ELSE IF AnyNegative(pw.pairs) THEN Err("ValueError")
      ELSE IF mode = "constant"
      THEN _pad_constant(array, pw.pairs, constant_values)
      ELSE IF mode = "wrap" THEN _pad_wrap(array, pw.pairs)
      ELSE IF mode \in {"symmetric", "reflect"}
      THEN _pad_symmetric_or_reflect(array, pw.pairs, mode, reflect_type)
      ELSE IF mode = "edge" THEN _pad_edge(array, pw.pairs)
      ELSE IF mode = "linear_ramp"
      THEN IF ev.err # "" THEN Err(ev.err)
           ELSE _pad_linear_ramp(array, pw.pairs, ev.pairs)
      ELSE IF mode \in StatModes
      THEN IF stat_length = NoneArg
           THEN _pad_stats(array, pw.pairs, NoneArg, mode, und)
           ELSE IF sl.err # "" THEN Err(sl.err)
           ELSE _pad_stats(array, pw.pairs, Some(sl.pairs), mode, und)
      ELSE _pad_empty(array, pw.pairs)

\* the keyword arguments each mode accepts
allowed_kwargs(mode) ==
  CASE mode = "constant" -> {"constant_values"}
    [] mode = "linear_ramp" -> {"end_values"}
    [] mode \in StatModes -> {"stat_length"}
    [] mode \in {"reflect", "symmetric"} -> {"reflect_type"}
    [] OTHER -> {}

NoKwargs == [constant_values |-> NoneArg, stat_length |-> NoneArg,
             end_values |-> NoneArg, reflect_type |-> NoneArg]

\* the names of the keyword arguments given (a field is NoneArg or Some(v))
given_kwargs(kwargs) == {name \in DOMAIN kwargs : kwargs[name] # NoneArg}

kwargs_get(kwargs, name, default) ==
  IF kwargs[name] = NoneArg THEN default ELSE kwargs[name][1]

\* np.asarray of widths written with a floating-point number: every element
\* has the floating-point dtype, also those with an integral value; the
\* elements are written in halves (3 is 1.5)
Float(A) == [shape |-> A.shape, elems |-> A.elems, dtype |-> "float"]
IsFloat(A) == "dtype" \in DOMAIN A

\* core.is_dim(p[0]) and core.is_dim(p[1]) for every normalized pair p: the
\* pairs hold elements of np.asarray(pad_width), which all have its dtype
is_dim(nvals) == ~IsFloat(nvals)

\* pad(array, pad_width, mode, **kwargs), mode a string
pad(array, pad_width, mode, kwargs, und) ==
  LET pw == _broadcast_to_pairs(pad_width, ndim(array))
  IN  IF pw.err # "" THEN Err(pw.err)
      ELSE IF pw.pairs # <<>> /\ ~is_dim(pad_width) THEN Err("TypeError")
      ELSE IF mode \notin NamedModes THEN Err("NotImplementedError")
      ELSE IF given_kwargs(kwargs) \ allowed_kwargs(mode) # {}
      THEN Err("ValueError")
      ELSE _pad(array, pw.pairs, mode,
                kwargs_get(kwargs, "constant_values", Scalar(0)),
                kwargs["stat_length"],
                kwargs_get(kwargs, "end_values", Scalar(0)),
                kwargs_get(kwargs, "reflect_type", "even"), und)

(***************************************************************************)
(* histogram_bin_edges and histogram.                                      *)
(* Samples and edges are exact numbers written as integer multiples of     *)
(* 1/unit, so that the +-0.5 of a degenerate range (unit/2) and the        *)
(* equal-width edges of k bins (unit a multiple of 2k) are integers.       *)
(***************************************************************************)
MinOf(S) == -MaxOf({-v : v \in S})

\* array_creation.linspace(start, stop, num) with the endpoint: num evenly
\* spaced values, the single value start when num = 1
linspace_endpoint(start, stop, num) ==
  Mat([p \in 1..num |->
         IF num = 1 THEN start
         ELSE start + ((p - 1) * (stop - start)) \div (num - 1)])

\* the result of histogram_bin_edges: an edge array, or the exception raised
OkEdges(e) == [err |-> "", edges |-> Mat(e)]
ErrEdges(x) == [err |-> x, edges |-> <<>>]

\* the range widened by one half on each side
degenerate_range(lo, hi, unit) == <<lo - unit \div 2, hi + unit \div 2>>

\* histogram_bin_edges(a, bins, range): bins a 1-D array of edges or a 0-d
\* bin count, range NoneArg or Some(<<lo, hi>>)
histogram_bin_edges(a, bins, range, unit) ==
  IF ndim(bins) = 1 THEN OkEdges(Seq1(bins))
  ELSE IF range = NoneArg /\ Len(a) = 0
  THEN ErrEdges("ValueError")          \* arr.min() of no elements
  ELSE LET bins_int == bins.elems[<<>>]
           r == IF range = NoneArg
                THEN <<MinOf(SeqRange(a)), MaxOf(SeqRange(a))>>
                ELSE range[1]
           ptp == MaxOf({r[1], r[2]}) - MinOf({r[1], r[2]})
           rr == IF ptp = 0 THEN degenerate_range(r[1], r[2], unit) ELSE r
       IN  OkEdges(linspace_endpoint(rr[1], rr[2], bins_int + 1))

\* the insertion points taken on the left
bin_index_left(bin_edges, a) == searchsorted(bin_edges, a, "left", "scan")

\* searchsorted(bin_edges, a, side='right')
bin_index(bin_edges, a) == searchsorted(bin_edges, a, "right", "scan")

\* where(a == bin_edges[-1], len(bin_edges) - 1, bin_idx) left out
close_final_edge_open(a, bin_edges, bin_idx) == bin_idx

\* where(a == bin_edges[-1], len(bin_edges) - 1, bin_idx)
close_final_edge(a, bin_edges, bin_idx) ==
  Mat([p \in 1..Len(a) |->
         IF a[p] = bin_edges[Len(bin_edges)] THEN Len(bin_edges) - 1
         ELSE bin_idx[p]])

\* counts[1:]: slot 0 collects the samples below the first edge
trim_below_range(counts) == SubSeq(counts, 2, Len(counts))

\* the result of histogram: (counts, bin_edges), or the exception raised
OkHist(c, e) == [err |-> "", counts |-> c, bin_edges |-> e]
ErrHist(x) == [err |-> x, counts |-> <<>>, bin_edges |-> <<>>]

\* histogram(a, bins, range, weights, density=None): weights NoneArg or
\* Some(w)
histogram(a, bins, range, weights, unit) ==
  IF weights # NoneArg /\ Len(weights[1]) # Len(a) THEN ErrHist("ValueError")
  ELSE LET w == IF weights = NoneArg THEN Mat([p \in 1..Len(a) |-> 1])
                ELSE weights[1]
           be == histogram_bin_edges(a, bins, range, unit)
           bin_edges == be.edges
           bin_idx == close_final_edge(a, bin_edges, bin_index(bin_edges, a))
           counts == trim_below_range(
                       at_add(zeros(Len(bin_edges)), bin_idx, w))
       IN  IF be.err # "" THEN ErrHist(be.err)
           ELSE IF Len(bin_edges) = 0
           THEN ErrHist("IndexError")         \* bin_edges[-1]
           ELSE OkHist(counts, bin_edges)

(***************************************************************************)
(* ravel_multi_index, bincount and histogramdd.                            *)
(***************************************************************************)
\* clip(x, lo, hi)
clip(x, lo, hi) == IF x < lo THEN lo ELSE IF x > hi THEN hi ELSE x

\* the strides of order 'F'
strides_F(dims) == Mat([j \in 1..Len(dims) |-> SeqProd(SubSeq(dims, 1, j - 1))])

\* np.cumprod((1,) + dims[1:][::-1])[::-1]: the strides of order 'C'
strides_C(dims) ==
  Mat([j \in 1..Len(dims) |-> SeqProd(SubSeq(dims, j + 1, Len(dims)))])

RECURSIVE DotSum(_, _, _)
DotSum(coords, strides, j) ==
  IF j > Len(coords) THEN 0
  ELSE coords[j] * strides[j] + DotSum(coords, strides, j + 1)

OkIdx(x) == [err |-> "", idx |-> Mat(x)]
ErrIdx(e) == [err |-> e, idx |-> <<>>]

\* ravel_multi_index(multi_index, dims, mode=mode, order='C'): multi_index is
\* one index array (a sequence, one entry per point) per dimension
ravel_multi_index(multi_index, dims, mode) ==
  LET D == Len(dims)
      npoints == IF D = 0 THEN 0 ELSE Len(multi_index[1])
      invalid == \E j \in 1..D : \E p \in 1..npoints :
                   multi_index[j][p] < 0 \/ multi_index[j][p] >= dims[j]
      coord(j, p) ==
        IF mode = "clip" THEN clip(multi_index[j][p], 0, dims[j] - 1)
        ELSE IF mode = "wrap" THEN multi_index[j][p] % dims[j]
        ELSE multi_index[j][p]
      strides == strides_C(dims)
  IN  IF mode = "raise" /\ invalid THEN ErrIdx("ValueError")
      ELSE IF mode \notin {"raise", "clip", "wrap"} THEN ErrIdx("ValueError")
      ELSE OkIdx([p \in 1..npoints |->
                    DotSum([j \in 1..D |-> coord(j, p)], strides, 1)])

\* bincount(x, weights, length=length): weights NoneArg or Some(w);
\* zeros(length).at[clip(x, 0)].add(weights, mode='drop')
bincount(x, weights, length) ==
  LET w == IF weights = NoneArg THEN Mat([p \in 1..Len(x) |-> 1])
           ELSE weights[1]
      cx == Mat([p \in 1..Len(x) |-> IF x[p] < 0 THEN 0 ELSE x[p]])
  IN  at_add(zeros(length), cx, w)

\* bins of histogramdd: one count for every dimension, or a list with one
\* entry (an edge array or a count) per dimension
BinsInt(k) == [is_list |-> FALSE, val |-> Scalar(k)]
BinsList(l) == [is_list |-> TRUE, val |-> l]

\* sample[:, i]
column(sample, i) ==
  Mat([p \in 1..sample.shape[1] |-> sample.elems[<<p - 1, i>>]])

\* where(sample[:, i] == bin_edges[-1], bin_idx - 1, bin_idx)
close_final_edge_dd(col, bin_edges, bin_idx) ==
  Mat([p \in 1..Len(col) |->
         IF col[p] = bin_edges[Len(bin_edges)] THEN bin_idx[p] - 1
         ELSE bin_idx[p]])

\* hist[D * (slice(1, -1),)]
core_of(hist) ==
  MkArray([j \in 1..ndim(hist) |-> MaxOf({hist.shape[j] - 2, 0})],
          LAMBDA idx : hist.elems[[j \in 1..ndim(hist) |-> idx[j] + 1]])

\* the result of histogramdd: (hist, bin_edges_by_dim), or the exception
OkDd(h, e) == [err |-> "", hist |-> h, bin_edges_by_dim |-> e]
ErrDd(x) == [err |-> x, hist |-> Scalar(0), bin_edges_by_dim |-> <<>>]

\* histogramdd(sample, bins, range, weights, density=None): sample an (N, D)
\* array, range NoneArg or Some(one entry per dimension, NoneArg or
\* Some(<<lo, hi>>)), weights NoneArg or Some(w)
histogramdd(sample, bins, range, weights, unit) ==
  LET N == sample.shape[1]
      D == sample.shape[2]
      bins_per_dimension ==
        IF bins.is_list THEN bins.val ELSE [i \in 1..D |-> bins.val]
      range_i(i) == IF range = NoneArg THEN NoneArg ELSE range[1][i]
      be(i) == histogram_bin_edges(column(sample, i - 1),
                                   bins_per_dimension[i], range_i(i), unit)
      bin_edges_by_dim == Mat([i \in 1..D |-> be(i).edges])
      bin_idx_by_dim ==
        Mat([i \in 1..D |->
               close_final_edge_dd(column(sample, i - 1), be(i).edges,
                                   bin_index(be(i).edges,
                                             column(sample, i - 1)))])
      nbins == Mat([i \in 1..D |-> Len(be(i).edges) + 1])
      xy == ravel_multi_index(bin_idx_by_dim, nbins, "clip")
      hist == bincount(xy.idx, weights, SeqProd(nbins))
  IN  IF weights # NoneArg /\ Len(weights[1]) # N THEN ErrDd("ValueError")
      ELSE IF range # NoneArg /\ Len(range[1]) # D THEN ErrDd("ValueError")
      ELSE IF bins.is_list /\ Len(bins.val) # D THEN ErrDd("ValueError")
      ELSE IF \E i \in 1..D : be(i).err # ""
      THEN ErrDd(be(CHOOSE i \in 1..D :
                      be(i).err # "" /\ \A j \in 1..(i - 1) : be(j).err = "").err)
      ELSE OkDd(core_of(reshape(hist, nbins)), bin_edges_by_dim)

(***************************************************************************)
(* insert(arr, obj, values, axis) and delete(arr, obj, axis,               *)
(* assume_unique_indices).  obj is an integer array (0-d or 1-D), a        *)
(* boolean mask or a slice.                                                *)
(***************************************************************************)
\* slice(start, stop, step) with step >= 1; start and stop are optional
SliceObj(start, stop, step) == [start |-> start, stop |-> stop, step |-> step]
\* a one-dimensional boolean mask
MaskObj(m) == [mask |-> m]
IsSlice(obj) == "step" \in DOMAIN obj
IsMask(obj) == "mask" \in DOMAIN obj

arange(n) == Mat([k \in 1..n |-> k - 1])

\* arange(*obj.indices(n)), which is also arange(n)[obj], for step >= 1
slice_indices(obj, n) ==
  LET bound(v, default) ==
        IF v = NoneArg THEN default ELSE clip(canon_index(v[1], n), 0, n)
      start == bound(obj.start, 0)
      stop == bound(obj.stop, n)
      count == IF stop <= start THEN 0
               ELSE (stop - start + obj.step - 1) \div obj.step
  IN  Mat([k \in 1..count |-> start + (k - 1) * obj.step])

\* sort(x)
sort(x) == Mat([k \in 1..Len(x) |-> x[argsort(x)[k] + 1]])

\* where(indices < 0, indices + n, indices) followed by clip(indices, 0, n)
wrap_and_clip(indices, n) ==
  Mat([k \in 1..Len(indices) |-> clip(canon_index(indices[k], n), 0, n)])

\* array(values, ndmin=nd): axes of length 1 are prepended
with_ndmin(v, nd) ==
  IF ndim(v) >= nd THEN v
  ELSE MkArray([j \in 1..nd |-> IF j <= nd - ndim(v) THEN 1
                                ELSE v.shape[j - (nd - ndim(v))]],
               LAMBDA idx : v.elems[SubSeq(idx, nd - ndim(v) + 1, nd)])

\* moveaxis(v, 0, axis)
moveaxis_from_0(v, axis) ==
  LET old_axis(j) == IF j = axis + 1 THEN 1 ELSE IF j <= axis THEN j + 1 ELSE j
      new_axis(i) == IF i = 1 THEN axis + 1 ELSE IF i <= axis + 1 THEN i - 1 ELSE i
  IN  MkArray([j \in 1..ndim(v) |-> v.shape[old_axis(j)]],
              LAMBDA idx : v.elems[[i \in 1..ndim(v) |-> idx[new_axis(i)]]])

\* whether an array of this shape broadcasts to the target shape (same rank)
broadcasts_to(shape, target) ==
  /\ Len(shape) = Len(target)
  /\ \A j \in 1..Len(shape) : shape[j] = target[j] \/ shape[j] = 1

\* the element of v that broadcasting puts at idx
broadcast_elem(v, idx) ==
  v.elems[[j \in 1..Len(idx) |-> IF v.shape[j] = 1 THEN 0 ELSE idx[j]]]

\* out.at[(slice(None),) * axis + (ind,)].set(src): src broadcasts to the
\* shape of out with len(ind) on the axis; an index outside the axis is
\* dropped; insert never passes an index twice (on a repeated index the
\* last update is taken here)
at_set_axis(dest, ind, src, axis) ==
  LET n == At(dest.shape, axis)
      hits(p) == {u \in 1..Len(ind) : canon_index(ind[u], n) = p}
  IN  MkArray(dest.shape,
        LAMBDA idx :
          IF hits(idx[axis + 1]) = {} THEN dest.elems[idx]
          ELSE broadcast_elem(src,
                 [idx EXCEPT ![axis + 1] = MaxOf(hits(idx[axis + 1])) - 1]))

\* the insertion slots computed without sorting the indices first
values_ind_unsorted(indices, n_insert) ==
  Mat([k \in 1..Len(indices) |-> indices[k] + (k - 1)])

\* indices.at[argsort(indices)].add(arange(n_insert))
values_ind(indices, n_insert) ==
  at_add(indices, argsort(indices), arange(n_insert))

\* the mask of original slots left all True
arr_ind_all_slots(vals_ind, n_input, n_insert) ==
  Mat([k \in 1..n_input |-> k - 1])

\* where(ones(n_input + n_insert).at[values_ind].set(False), size=n_input)[0]:
\* the first n_input slots that hold no inserted value, filled with 0 when
\* there are fewer
arr_ind(vals_ind, n_input, n_insert) ==
  LET total == n_input + n_insert
      arr_mask == [p \in 0..(total - 1) |->
                     \A u \in 1..Len(vals_ind) :
                        canon_index(vals_ind[u], total) # p]
      nth(k) == IF Cardinality({p \in 0..(total - 1) : arr_mask[p]}) < k THEN 0
                ELSE CHOOSE p \in 0..(total - 1) :
                       /\ arr_mask[p]
                       /\ Cardinality({q \in 0..(p - 1) : arr_mask[q]}) = k - 1
  IN  Mat([k \in 1..n_input |-> nth(k)])

insert(arr, obj, values, axis) ==
  LET a == IF axis = NoneArg THEN Arr1(ravel(arr)) ELSE arr
      ax == IF axis = NoneArg THEN 0 ELSE canon_index(axis[1], ndim(a))
      n_input == At(a.shape, ax)
      given == IF IsSlice(obj) THEN Arr1(slice_indices(obj, n_input)) ELSE obj
      values0 == with_ndmin(values, ndim(a))
      single == size(given) = 1
      values_arr == IF single /\ ndim(given) = 0
                    THEN moveaxis_from_0(values0, ax) ELSE values0
      indices0 == IF single
                  THEN Mat([k \in 1..At(values_arr.shape, ax) |-> ravel(given)[1]])
                  ELSE ravel(given)
      m == Len(indices0)
      p == At(values_arr.shape, ax)
      compatible == m = p \/ m = 1 \/ p = 1
      n_insert == IF m = 1 THEN p ELSE m
      out_shape == [a.shape EXCEPT ![ax + 1] = n_input + n_insert]
      indices == wrap_and_clip(indices0, n_input)
      vals_ind == values_ind(indices, n_insert)
      orig_ind == arr_ind(vals_ind, n_input, n_insert)
      zeros_like == MkArray(out_shape, LAMBDA idx : 0)
  IN  IF ax < 0 \/ ax >= ndim(a) THEN Err("ValueError")
      ELSE IF ndim(given) > 1 THEN Err("ValueError")
      ELSE IF ~compatible THEN Err("ValueError")
      ELSE IF ~broadcasts_to(values_arr.shape,
                             [out_shape EXCEPT ![ax + 1] = n_insert])
      THEN Err("ValueError")
      ELSE Ok(at_set_axis(at_set_axis(zeros_like, vals_ind, values_arr, ax),
                          orig_ind, a, ax))

\* the source index of every output slot, counting a deleted position only
\* when it is before the slot
delete_source_index_strict(obj, n) ==
  LET clipped == wrap_and_clip(obj, n)
      sorted == sort(clipped)
      shifted == Mat([k \in 1..Len(sorted) |-> sorted[k] - (k - 1)])
      i == arange(n - Len(obj))
  IN  Mat([k \in 1..Len(i) |->
             i[k] + Cardinality({u \in 1..Len(shifted) : i[k] > shifted[u]})])

\* the positions left when each distinct index is removed once
delete_source_index_distinct(obj, n) ==
  LET clipped == wrap_and_clip(obj, n)
      kept == {p \in 0..(n - 1) : \A u \in 1..Len(clipped) : clipped[u] # p}
      nth(k) == CHOOSE p \in kept : Cardinality({q \in kept : q < p}) = k - 1
  IN  Mat([k \in 1..Cardinality(kept) |-> nth(k)])

\* Case 3a of delete: obj wrapped, clipped and sorted, obj -= arange(len(obj)),
\* i = arange(n - obj.size), i += (i[None, :] >= obj[:, None]).sum(0)
delete_source_index(obj, n) ==
  LET clipped == wrap_and_clip(obj, n)
      sorted == sort(clipped)
      shifted == Mat([k \in 1..Len(sorted) |-> sorted[k] - (k - 1)])
      i == arange(n - Len(obj))
  IN  Mat([k \in 1..Len(i) |->
             i[k] + Cardinality({u \in 1..Len(shifted) : i[k] >= shifted[u]})])

\* a[(slice(None),) * axis + (i,)] for in-range i
index_axis(a, i, axis) ==
  MkArray([a.shape EXCEPT ![axis + 1] = Len(i)],
          LAMBDA idx : a.elems[[idx EXCEPT ![axis + 1] = i[idx[axis + 1] + 1]]])

\* the last position where mask is True left out
mask_axis_drop_last(a, mask, axis) ==
  LET kept == {p \in 1..Len(mask) : mask[p]}
      nth(k) == CHOOSE p \in kept : Cardinality({q \in kept : q < p}) = k - 1
      count == IF kept = {} THEN 0 ELSE Cardinality(kept) - 1
  IN  index_axis(a, Mat([k \in 1..count |-> nth(k) - 1]), axis)

\* a[(slice(None),) * axis + (mask,)]: the positions where mask is True
mask_axis(a, mask, axis) ==
  LET kept == {p \in 1..Len(mask) : mask[p]}
      nth(k) == CHOOSE p \in kept : Cardinality({q \in kept : q < p}) = k - 1
  IN  index_axis(a, Mat([k \in 1..Cardinality(kept) |-> nth(k) - 1]), axis)

delete(arr, obj, axis, assume_unique_indices) ==
  LET a == IF axis = NoneArg THEN Arr1(ravel(arr)) ELSE arr
      ax == IF axis = NoneArg THEN 0 ELSE canon_index(axis[1], ndim(a))
      n == At(a.shape, ax)
      static_int == ~IsSlice(obj) /\ ~IsMask(obj) /\ ndim(obj) = 0
      k == canon_index(obj.elems[<<>>], n)
      positions == IF IsSlice(obj) THEN slice_indices(obj, n) ELSE ravel(obj)
      unique == IsSlice(obj) \/ assume_unique_indices
      mask == IF IsMask(obj) THEN Mat([p \in 1..n |-> ~obj.mask[p]])
              ELSE Mat([p \in 1..n |->
                     \A u \in 1..Len(positions) :
                        canon_index(positions[u], n) # p - 1])
  IN  IF ax < 0 \/ ax >= ndim(a) THEN Err("ValueError")
      ELSE IF static_int
      THEN \* Case 1: obj is a static integer
           IF k < 0 \/ k >= n THEN Err("ValueError")
           ELSE Ok(concat2(slice_in_dim(a, 0, k, ax),
                           slice_in_dim(a, k + 1, n, ax), ax))
      ELSE IF ~IsMask(obj) /\ unique
      THEN \* Case 2 and Case 3a: a static slice, or unique integer indices
           Ok(index_axis(a, delete_source_index(positions, n), ax))
      ELSE IF IsMask(obj)
      THEN \* Case 3b with a boolean mask
           IF Len(obj.mask) # n THEN Err("ValueError")
           ELSE Ok(mask_axis(a, mask, ax))
      ELSE \* Case 3b with static integer indices: mask[obj_array] = False
           IF \E u \in 1..Len(positions) :
                positions[u] < -n \/ positions[u] >= n
           THEN Err("IndexError")
           ELSE Ok(mask_axis(a, mask, ax))

(***************************************************************************)
(* fill_diagonal(a, val, wrap, inplace=...)                                *)
(***************************************************************************)
\* tile(arr, reps) of a 1-D sequence
tile(arr, reps) ==
  Mat([k \in 1..(Len(arr) * reps) |-> arr[((k - 1) % Len(arr)) + 1]])

\* int(np.ceil(p / q)) for p >= 0 and q > 0
ceil_div(p, q) == (p + q - 1) \div q

OkSeq(x) == [err |-> "", seq |-> x]
ErrSeq(e) == [err |-> e, seq |-> <<>>]

\* every element repeated in place of the whole sequence being tiled
_tile_to_size_repeat_each(arr, sz) ==
  IF Len(arr) < sz /\ Len(arr) = 0 THEN ErrSeq("ZeroDivisionError")
  ELSE LET reps == ceil_div(sz, Len(arr))
           tiled == IF Len(arr) < sz
                    THEN Mat([k \in 1..(Len(arr) * reps) |->
                                arr[((k - 1) \div reps) + 1]])
                    ELSE arr
       IN  OkSeq(IF Len(tiled) > sz THEN SubSeq(tiled, 1, sz) ELSE tiled)

\* _tile_to_size(arr, size): size / arr.size divides by zero for an empty arr
\* and a positive size
_tile_to_size(arr, sz) ==
  IF Len(arr) < sz /\ Len(arr) = 0 THEN ErrSeq("ZeroDivisionError")
  ELSE LET tiled == IF Len(arr) < sz THEN tile(arr, ceil_div(sz, Len(arr)))
                    ELSE arr
       IN  OkSeq(IF Len(tiled) > sz THEN SubSeq(tiled, 1, sz) ELSE tiled)

\* a.at[diag_indices(n, a.ndim)].set(vals): entry (i, ..., i) takes vals[i]
set_diagonal(a, n, vals) ==
  MkArray(a.shape,
    LAMBDA idx :
      IF (\A j \in 1..ndim(a) : idx[j] = idx[1]) /\ idx[1] < n
      THEN vals[idx[1] + 1] ELSE a.elems[idx])

fill_diagonal(a, val, wrap, inplace) ==
  LET n == MinOf(SeqRange(a.shape))
      vals == IF ndim(val) = 0 THEN OkSeq(Mat([k \in 1..n |-> val.elems[<<>>]]))
              ELSE _tile_to_size(ravel(val), n)
  IN  IF inplace THEN Err("NotImplementedError")
      ELSE IF wrap THEN Err("NotImplementedError")
      ELSE IF ndim(a) < 2 THEN Err("ValueError")
      ELSE IF ndim(a) > 2 /\ \E j \in 2..ndim(a) : a.shape[j] # a.shape[1]
      THEN Err("ValueError")
      ELSE IF vals.err # "" THEN Err(vals.err)
      ELSE Ok(set_diagonal(a, n, vals.seq))

(***************************************************************************)
(* digitize(x, bins, right, method=...)                                    *)
(***************************************************************************)
\* bins_arr[::-1]
reversed(b) == Mat([k \in 1..Len(b) |-> b[Len(b) + 1 - k]])

\* the side named after the argument: 'right' for right=True
digitize_side_same(right) == IF right THEN "right" ELSE "left"

\* side = 'right' if not right else 'left'
digitize_side(right) == IF ~right THEN "right" ELSE "left"

digitize(x, bins, right, method) ==
  LET bins_arr == ravel(bins)
      n == Len(bins_arr)
      sd == digitize_side(right)
      mth == IF method = NoneArg THEN "scan" ELSE method[1]
      ascending == searchsorted(bins_arr, x, sd, mth)
      descending == searchsorted(reversed(bins_arr), x, sd, mth)
  IN  IF ndim(bins) # 1 THEN ErrSeq("ValueError")
      ELSE IF bins.shape[1] = 0 THEN OkSeq(zeros(Len(x)))
      ELSE OkSeq(Mat([i \in 1..Len(x) |->
                   IF bins_arr[n] >= bins_arr[1] THEN ascending[i]
                   ELSE n - descending[i]]))

(***************************************************************************)
(* Each specification below exercises one component; the variables of the  *)
(* other components stay at these values.                                  *)
(***************************************************************************)
NotCalled == Err("not called")

SearchIdle ==
  /\ sorted_arr = <<>> /\ query = <<>> /\ side = "left"
  /\ low = <<>> /\ high = <<>> /\ level = 0
  /\ out = [m \in Methods |-> None]

RepeatIdle ==
  /\ rp_a = Scalar(0) /\ rp_repeats = Scalar(0) /\ rp_axis = NoneArg
  /\ rp_total_repeat_length = NoneArg /\ rp_result = Err("not called")

PadIdle ==
  /\ pd_array = Scalar(0) /\ pd_pad_width = Scalar(0) /\ pd_mode = "constant"
  /\ pd_kwargs = NoKwargs /\ pd_padded = NotCalled

HistIdle ==
  /\ hs_a = <<>> /\ hs_bins = Scalar(0) /\ hs_range = NoneArg
  /\ hs_weights = NoneArg /\ hs_unit = 1 /\ hs_result = NotCalled

DdIdle ==
  /\ dd_sample = Scalar(0) /\ dd_bins = BinsInt(0) /\ dd_range = NoneArg
  /\ dd_weights = NoneArg /\ dd_unit = 1 /\ dd_result = NotCalled

EditIdle ==
  /\ ed_arr = Scalar(0) /\ ed_obj = Scalar(0) /\ ed_values = Scalar(0)
  /\ ed_axis = NoneArg /\ ed_assume_unique = FALSE
  /\ ed_out = NotCalled /\ ed_back = NotCalled

FillIdle ==
  /\ fd_a = Scalar(0) /\ fd_val = Scalar(0) /\ fd_wrap = FALSE
  /\ fd_inplace = FALSE /\ fd_result = NotCalled

DigitizeIdle ==
  /\ dg_x = <<>> /\ dg_bins = Scalar(0) /\ dg_right = FALSE
  /\ dg_method = NoneArg /\ dg_result = NotCalled

PairsIdle ==
  bp_nvals = Scalar(0) /\ bp_nd = 0 /\ bp_result = ErrPairs("not called")

LowerIdle ==
  mg_module = <<>> /\ mg_lowered = "no"

ChunkIdle ==
  /\ ch_a = Scalar(0) /\ ch_pad_width = <<0, 0>> /\ ch_mode = "reflect"
  /\ ch_reflect_type = "even" /\ ch_array = Scalar(0) /\ ch_padding = 0
  /\ ch_edge = Scalar(0) /\ ch_pc = "idle"

TwiceIdle ==
  tw_op = "none" /\ tw_args = <<>> /\ tw_out = <<>> /\ tw_scan = <<>>

(***************************************************************************)
(* The search specification: one set of inputs, the four methods run on it. *)
(* 'scan' runs body_fun one iteration per step (control_flow.scan with      *)
(* unroll=1); the other methods are single steps.                           *)
(***************************************************************************)
SearchValues == 0..MaxSearchVal

SortedRefs == {r \in SeqsUpTo(SearchValues, MaxRefLen) : IsSorted(r)}

Queries == SeqsUpTo(SearchValues, MaxQueryLen) \ {<<>>}

\* the docstring's example: jnp.searchsorted(jnp.array([1,2,2,3,4,5,5]), 2)
DocRef == <<1, 2, 2, 3, 4, 5, 5>>
DocQuery == <<2>>

SearchInputs ==
  (SortedRefs \X Queries) \cup {<<DocRef, DocQuery>>}

\* the other kernels are not called
InitSearch ==
  /\ TwiceIdle
  /\ ChunkIdle
  /\ LowerIdle
  /\ RepeatIdle /\ PadIdle /\ HistIdle /\ DdIdle /\ EditIdle
  /\ FillIdle /\ DigitizeIdle /\ PairsIdle
  /\ \E in \in SearchInputs : sorted_arr = in[1] /\ query = in[2]
  /\ side \in {"left", "right"}
  /\ low = zeros(Len(query))
  /\ high = [i \in 1..Len(query) |-> Len(sorted_arr)]
  /\ level = 0
  /\ out = [m \in Methods |-> None]

\* one iteration of body_fun, on every query element
ScanBody ==
  /\ out["scan"] = None
  /\ Len(sorted_arr) > 0
  /\ level < n_levels(Len(sorted_arr))
  /\ low' = [i \in 1..Len(query) |->
               body_fun(sorted_arr, side, query[i], low[i], high[i])[1]]
  /\ high' = [i \in 1..Len(query) |->
               body_fun(sorted_arr, side, query[i], low[i], high[i])[2]]
  /\ level' = level + 1
  /\ UNCHANGED <<sorted_arr, query, side, out, notSearch>>

\* return carry[1] (or zeros for an empty reference array)
ScanReturn ==
  /\ out["scan"] = None
  /\ Len(sorted_arr) = 0 \/ level = n_levels(Len(sorted_arr))
  /\ out' = [out EXCEPT !["scan"] =
               IF Len(sorted_arr) = 0 THEN zeros(Len(query)) ELSE high]
  /\ UNCHANGED <<sorted_arr, query, side, low, high, level, notSearch>>

\* method='scan_unrolled': the same scan, every iteration in one step
ScanUnrolled ==
  /\ out["scan_unrolled"] = None
  /\ out' = [out EXCEPT !["scan_unrolled"] =
               searchsorted(sorted_arr, query, side, "scan_unrolled")]
  /\ UNCHANGED <<sorted_arr, query, side, low, high, level, notSearch>>

ViaSort ==
  /\ out["sort"] = None
  /\ out' = [out EXCEPT !["sort"] =
               searchsorted(sorted_arr, query, side, "sort")]
  /\ UNCHANGED <<sorted_arr, query, side, low, high, level, notSearch>>

ViaCompareAll ==
  /\ out["compare_all"] = None
  /\ out' = [out EXCEPT !["compare_all"] =
               searchsorted(sorted_arr, query, side, "compare_all")]
  /\ UNCHANGED <<sorted_arr, query, side, low, high, level, notSearch>>

NextSearch == ScanBody \/ ScanReturn \/ ScanUnrolled \/ ViaSort \/ ViaCompareAll

SpecSearch == InitSearch /\ [][NextSearch]_vars

(***************************************************************************)
(* Claims about searchsorted                                               *)
(***************************************************************************)
CountLess(arr, q) == Cardinality({j \in 1..Len(arr) : arr[j] < q})
CountLessEq(arr, q) == Cardinality({j \in 1..Len(arr) : arr[j] <= q})

\* C1: for a non-decreasing reference array of length n >= 1, searchsorted
\* (default method 'scan') returns for every query element the number of
\* reference elements < q (side 'left') or <= q (side 'right').
\* The docstring example gives 1 for 'left' and 3 for 'right'.
C1_SearchsortedCounts ==
  (out["scan"] # None /\ Len(sorted_arr) >= 1 /\ IsSorted(sorted_arr)) =>
    /\ \A i \in 1..Len(query) :
         out["scan"][i] = IF side = "left" THEN CountLess(sorted_arr, query[i])
                          ELSE CountLessEq(sorted_arr, query[i])
    /\ (sorted_arr = DocRef /\ query = DocQuery) =>
         out["scan"] = IF side = "left" THEN <<1>> ELSE <<3>>

\* C1 witness: the docstring example has returned 3 for side 'right'.
C1_Witness ==
  /\ sorted_arr = DocRef /\ query = DocQuery /\ side = "right"
  /\ out["scan"] = <<3>>

\* C2: the four methods return exactly the same indices on the same inputs.
C2_MethodsAgree ==
  \A m1, m2 \in Methods :
    (out[m1] # None /\ out[m2] # None) => out[m1] = out[m2]

\* C2 witness: all four methods have returned, on a query array that holds a
\* duplicated query equal to an element of the reference array.
C2_Witness ==
  /\ \A m \in Methods : out[m] # None
  /\ Len(query) = 2 /\ query[1] = query[2]
  /\ \E j \in 1..Len(sorted_arr) : sorted_arr[j] = query[1]
  /\ Len(sorted_arr) >= 2

\* the scan has run all its iterations on a reference array of length >= 1
ScanDone == Len(sorted_arr) >= 1 /\ level = n_levels(Len(sorted_arr))

InsertionPoint(q) ==
  IF side = "left" THEN CountLess(sorted_arr, q) ELSE CountLessEq(sorted_arr, q)

\* C25: for a non-decreasing reference array of length n >= 1 and every
\* query, ceil(log2(n+1)) bisection steps from the window (0, n) end with
\* high equal to the insertion point (0 for a query at or below r[0], n for a
\* query above r[n-1]); no input needs more: a further step would leave high
\* as it is.
C25_ScanLevelsSuffice ==
  (ScanDone /\ IsSorted(sorted_arr)) =>
    \A i \in 1..Len(query) :
      /\ high[i] = InsertionPoint(query[i])
      /\ body_fun(sorted_arr, side, query[i], low[i], high[i])[2] = high[i]

\* C25 witness: on a reference array of length 3 two steps have run for the
\* queries 0 (below every element, answer 0) and 2 (above every element,
\* answer 3).
C25_Witness ==
  /\ ScanDone /\ level = 2
  /\ sorted_arr = <<1, 1, 1>> /\ query = <<0, 2>>
  /\ high = <<0, 3>>

(***************************************************************************)
(* The scan specification: the 'scan' method, stepwise and unrolled, on    *)
(* reference arrays that need not be sorted.                               *)
(***************************************************************************)
AnyRefs == SeqsUpTo(SearchValues, MaxRefLen)

InitScan ==
  /\ TwiceIdle
  /\ ChunkIdle
  /\ LowerIdle /\ RepeatIdle /\ PadIdle /\ HistIdle /\ DdIdle /\ EditIdle
  /\ FillIdle /\ DigitizeIdle /\ PairsIdle
  /\ sorted_arr \in AnyRefs
  /\ query \in Queries
  /\ side \in {"left", "right"}
  /\ low = zeros(Len(query))
  /\ high = [i \in 1..Len(query) |-> Len(sorted_arr)]
  /\ level = 0
  /\ out = [m \in Methods |-> None]

NextScan == ScanBody \/ ScanReturn \/ ScanUnrolled

SpecScan == InitScan /\ [][NextScan]_vars

\* C26: for every reference array of length n >= 1, sorted or not, and every
\* query, every iteration keeps 0 <= low <= high <= n and probes only an
\* index mid = floor((low + high) / 2) with 0 <= mid <= n - 1; the returned
\* index lies in [0, n], and the two runs of the scan on the same inputs
\* (stepwise and unrolled) return the same index.
C26_ScanStaysInBounds ==
  LET n == Len(sorted_arr)
  IN  n >= 1 =>
        /\ \A i \in 1..Len(query) :
             /\ 0 <= low[i] /\ low[i] <= high[i] /\ high[i] <= n
             /\ level < n_levels(n) =>
                  /\ 0 <= scan_mid(low[i], high[i])
                  /\ scan_mid(low[i], high[i]) <= n - 1
        /\ out["scan"] # None =>
             \A i \in 1..Len(query) : out["scan"][i] \in 0..n
        /\ (out["scan"] # None /\ out["scan_unrolled"] # None) =>
             out["scan"] = out["scan_unrolled"]

\* C26 witness: both runs have returned on a reference array that is not
\* sorted, with an index that is not the count of smaller elements.
C26_Witness ==
  /\ sorted_arr = <<2, 0, 1>> /\ query = <<1>> /\ side = "left"
  /\ out["scan"] = <<2>> /\ out["scan_unrolled"] = <<2>>
  /\ CountLess(sorted_arr, 1) = 1

(***************************************************************************)
(* The repeat specification: one call of repeat on inputs drawn from        *)
(* bounded sets.                                                            *)
(***************************************************************************)
RepeatArrays1 == {Arr1(x) : x \in SeqsUpTo(1..MaxRepVal, MaxRepLen)}
RepeatArrays2 ==
  {Iota(<<r, c>>) : r \in 0..(MaxRepLen - 1), c \in 0..(MaxRepLen - 1)}
RepeatArrays == {Scalar(1)} \cup RepeatArrays1 \cup RepeatArrays2

\* axis=None, or an axis of the array (negative values count from the end)
RepeatAxes(A) ==
  {NoneArg} \cup (IF ndim(A) = 0 THEN {Some(0)}
                  ELSE {Some(ax) : ax \in (-ndim(A))..(ndim(A) - 1)})

\* the array whose axis is repeated, the axis, and the length of that axis
RepeatedArray(A, axis) == IF axis = NoneArg THEN Arr1(ravel(A)) ELSE A
RepeatedAxis(A, axis) ==
  IF axis = NoneArg THEN 0 ELSE canon_index(axis[1], ndim(A))
RepeatedLen(A, axis) ==
  IF ndim(RepeatedArray(A, axis)) = 0 THEN 1
  ELSE At(RepeatedArray(A, axis).shape, RepeatedAxis(A, axis))

\* a vector of one count per element of the repeated axis, or a scalar count
RepeatCounts(A, axis) ==
  {Arr1(c) : c \in [1..RepeatedLen(A, axis) -> 0..MaxCount]}
    \cup {Scalar(k) : k \in 0..MaxCount}

RepeatTotals == {NoneArg} \cup {Some(L) : L \in 0..MaxTotal}

InitRepeat ==
  /\ TwiceIdle
  /\ ChunkIdle
  /\ LowerIdle
  /\ SearchIdle /\ PadIdle /\ HistIdle /\ DdIdle /\ EditIdle
  /\ FillIdle /\ DigitizeIdle /\ PairsIdle
  /\ rp_a \in RepeatArrays
  /\ rp_axis \in RepeatAxes(rp_a)
  /\ rp_repeats \in RepeatCounts(rp_a, rp_axis)
  /\ rp_total_repeat_length \in RepeatTotals
  /\ rp_result = NotCalled

Repeat ==
  /\ rp_result = NotCalled
  /\ rp_result' = repeat(rp_a, rp_repeats, rp_axis, rp_total_repeat_length)
  /\ UNCHANGED <<rp_a, rp_repeats, rp_axis, rp_total_repeat_length, notRepeat>>

NextRepeat == Repeat

SpecRepeat == InitRepeat /\ [][NextRepeat]_vars

(***************************************************************************)
(* Claims about repeat                                                     *)
(***************************************************************************)
Copies(v, k) == Mat([j \in 1..k |-> v])

\* a[0] c[0] times, then a[1] c[1] times, ...
RECURSIVE RepeatEach(_, _)
RepeatEach(x, c) ==
  IF x = <<>> THEN <<>>
  ELSE Copies(x[1], c[1]) \o RepeatEach(Tail(x), Tail(c))

\* the call is repeat(a, c) with a 1-D of length n >= 1 and c a vector of n counts
RepeatByVector ==
  /\ ndim(rp_a) = 1 /\ rp_a.shape[1] >= 1
  /\ ndim(rp_repeats) = 1 /\ rp_repeats.shape = rp_a.shape
  /\ rp_total_repeat_length = NoneArg

\* C10: for a 1-D array a of length n >= 1 and a vector c of n non-negative
\* counts, repeat(a, c) has length sum(c) and holds a[0] c[0] times, then
\* a[1] c[1] times, and so on: every output position holds the source
\* element that belongs there.
C10_RepeatByCounts ==
  (rp_result # NotCalled /\ RepeatByVector) =>
    /\ rp_result.err = ""
    /\ rp_result.arr.shape = <<SeqSum(Seq1(rp_repeats))>>
    /\ rp_result.arr = Arr1(RepeatEach(Seq1(rp_a), Seq1(rp_repeats)))

\* C10 witness: the call has returned for counts with a zero at the start, in
\* the middle and at the end of a run of non-zero counts.
C10_Witness ==
  /\ rp_result # NotCalled /\ RepeatByVector
  /\ Seq1(rp_a) = <<1, 2, 1>> /\ Seq1(rp_repeats) = <<0, 2, 0>>
  /\ rp_result.arr = Arr1(<<2, 2>>)

\* the call is repeat(a, k) with a scalar count k along an axis of a
RepeatByScalar ==
  /\ ndim(rp_repeats) = 0 /\ rp_total_repeat_length = NoneArg
  /\ ndim(RepeatedArray(rp_a, rp_axis)) # 0

\* C11: for a scalar count k >= 0, repeat(a, k) along an axis of length n
\* returns an array whose length on that axis is k*n and whose block
\* [i*k, (i+1)*k) on that axis holds a[i] k times, for every i; the other
\* axes are unchanged.  repeat([[1,2],[3,4]], 2, axis=-1) is
\* [[1,1,2,2],[3,3,4,4]].
C11_RepeatScalar ==
  (rp_result # NotCalled /\ RepeatByScalar) =>
    LET arr == RepeatedArray(rp_a, rp_axis)
        ax == RepeatedAxis(rp_a, rp_axis)
        n == RepeatedLen(rp_a, rp_axis)
        k == rp_repeats.elems[<<>>]
        res == rp_result.arr
    IN  /\ rp_result.err = ""
        /\ res.shape = [arr.shape EXCEPT ![ax + 1] = k * n]
        /\ \A i \in 0..(n - 1) : \A idx \in Indices(res.shape) :
             (i * k <= idx[ax + 1] /\ idx[ax + 1] < (i + 1) * k) =>
               res.elems[idx] = arr.elems[[idx EXCEPT ![ax + 1] = i]]
        /\ (rp_a = Arr2(<<<<1, 2>>, <<3, 4>>>>) /\ k = 2 /\ rp_axis = Some(-1))
             => res = Arr2(<<<<1, 1, 2, 2>>, <<3, 3, 4, 4>>>>)

\* C11 witness: the docstring call repeat([[1,2],[3,4]], 2, axis=-1) returned.
C11_Witness ==
  /\ rp_result # NotCalled /\ RepeatByScalar
  /\ rp_a = Arr2(<<<<1, 2>>, <<3, 4>>>>) /\ rp_axis = Some(-1)
  /\ rp_repeats = Scalar(2)
  /\ rp_result.arr.shape = <<2, 4>>

\* the call is repeat(a, c, total_repeat_length=L)
RepeatWithTotal == rp_total_repeat_length # NoneArg

\* the counts, one per element of the repeated axis
CountsOnAxis ==
  broadcast_to_len(ravel(rp_repeats), RepeatedLen(rp_a, rp_axis))

\* the element of the axis that position p of the untruncated repeat holds
SourceOf(c, p) ==
  CHOOSE i \in 0..(Len(c) - 1) :
    SeqSum(SubSeq(c, 1, i)) <= p /\ p < SeqSum(SubSeq(c, 1, i + 1))

\* the result has L entries on the repeated axis: the first min(L, sum(c))
\* entries of the untruncated repeat, then copies of the final element of the
\* axis
TruncatedOrFilled ==
  LET arr == RepeatedArray(rp_a, rp_axis)
      ax == RepeatedAxis(rp_a, rp_axis)
      n == RepeatedLen(rp_a, rp_axis)
      c == CountsOnAxis
      L == rp_total_repeat_length[1]
      res == rp_result.arr
      from(idx, i) == IF ndim(arr) = 0 THEN arr.elems[<<>>]
                      ELSE arr.elems[[idx EXCEPT ![ax + 1] = i]]
  IN  /\ rp_result.err = ""
      /\ res.shape = IF ndim(arr) = 0 THEN <<L>>
                     ELSE [arr.shape EXCEPT ![ax + 1] = L]
      /\ \A idx \in Indices(res.shape) :
           res.elems[idx] =
             IF idx[ax + 1] < SeqSum(c)
             THEN from(idx, SourceOf(c, idx[ax + 1]))
             ELSE from(idx, n - 1)

DocPadArray == Arr1(<<1, 2, 3>>)

PadArrays1 ==
  {Iota(<<n>>) : n \in 0..MaxPadLen} \cup {DocPadArray, Arr1(<<3, 1, 2>>)}
PadArrays2 ==
  {Iota(<<r, c>>) : r \in 0..(MaxPadLen - 1), c \in 0..(MaxPadLen - 1)}
PadArrays == {Scalar(1)} \cup PadArrays1 \cup PadArrays2

\* pad_width as the caller writes it: one integer, a (before, after) pair, or
\* one pair per axis (narrower on 2-D arrays, where every axis runs the same
\* per-axis step)
ValidPadWidths(A) ==
  LET W == 0..(IF ndim(A) = 2 THEN MaxPadWidth \div 2 ELSE MaxPadWidth)
  IN  {Scalar(w) : w \in W}
      \cup {Arr1(<<b, a>>) : b \in W, a \in W}
      \cup (IF ndim(A) = 1 THEN {Arr2(<<<<b, a>>>>) : b \in W, a \in W}
            ELSE IF ndim(A) = 2
            THEN {Arr2(<<<<b0, a0>>, <<b1, a1>>>>) :
                    b0 \in W, a0 \in W, b1 \in W, a1 \in W}
            ELSE {})

\* widths the caller should not write: a negative one alone, before or after
\* a valid one, and floating-point ones (1.5; 1.0 and 0.5)
NegativeWidths == {-w : w \in 1..MaxNegWidth}
NegativePadWidths ==
  {Scalar(w) : w \in NegativeWidths}
  \cup {Arr1(<<w, 1>>) : w \in NegativeWidths}
  \cup {Arr1(<<0, w>>) : w \in NegativeWidths}
FloatPadWidths == {Float(Scalar(3)), Float(Arr1(<<2, 1>>))}

PadWidths(A) == ValidPadWidths(A) \cup NegativePadWidths \cup FloatPadWidths

\* the keyword arguments tried with each mode
PadKwargs(mode) ==
  {NoKwargs} \cup
  CASE mode = "constant" ->
         {[NoKwargs EXCEPT !.constant_values = Some(cv)] :
            cv \in {Scalar(9), Arr1(<<8, 9>>), Arr2(<<<<6, 7>>>>),
                    Arr2(<<<<6, 7>>, <<8, 9>>>>)}}
    [] mode = "wrap" -> {[NoKwargs EXCEPT !.reflect_type = Some("odd")]}
    [] mode \in {"symmetric", "reflect"} ->
         {[NoKwargs EXCEPT !.reflect_type = Some("odd")]}
    [] mode = "linear_ramp" ->
         {[NoKwargs EXCEPT !.end_values = Some(Arr1(<<5, -5>>))]}
    [] mode \in StatModes ->
         {[NoKwargs EXCEPT !.stat_length = Some(Arr1(<<2, 1>>))]}
    [] OTHER -> {}

\* the outcomes of what the code leaves undefined: the integer a NaN is
\* converted to (0, or a large negative value; NanInt stands for the latter
\* and is kept small enough that the mean of a lane of them stays in range),
\* and whether the median of no elements raises
NanInt == -1000000
Undefined == [nan_int : {0, NanInt}, median_raises : BOOLEAN]

InitPad ==
  /\ TwiceIdle
  /\ ChunkIdle
  /\ LowerIdle
  /\ SearchIdle /\ RepeatIdle /\ HistIdle /\ DdIdle /\ EditIdle
  /\ FillIdle /\ DigitizeIdle /\ PairsIdle
  /\ pd_array \in PadArrays
  /\ pd_pad_width \in PadWidths(pd_array)
  /\ pd_mode \in NamedModes
  /\ pd_kwargs \in PadKwargs(pd_mode)
  /\ pd_padded = NotCalled

\* the modes other than the statistics never consult the undefined outcomes
NoUndefined == [nan_int |-> 0, median_raises |-> FALSE]

PadCall == pd_padded' = pad(pd_array, pd_pad_width, pd_mode, pd_kwargs,
                            NoUndefined)

PadConstant ==
  /\ pd_padded = NotCalled /\ pd_mode = "constant"
  /\ PadCall
  /\ UNCHANGED <<pd_array, pd_pad_width, pd_mode, pd_kwargs, notPad>>

PadWrap ==
  /\ pd_padded = NotCalled /\ pd_mode = "wrap"
  /\ PadCall
  /\ UNCHANGED <<pd_array, pd_pad_width, pd_mode, pd_kwargs, notPad>>

PadSymmetricOrReflect ==
  /\ pd_padded = NotCalled /\ pd_mode \in {"symmetric", "reflect"}
  /\ PadCall
  /\ UNCHANGED <<pd_array, pd_pad_width, pd_mode, pd_kwargs, notPad>>

PadEdge ==
  /\ pd_padded = NotCalled /\ pd_mode = "edge"
  /\ PadCall
  /\ UNCHANGED <<pd_array, pd_pad_width, pd_mode, pd_kwargs, notPad>>

PadLinearRamp ==
  /\ pd_padded = NotCalled /\ pd_mode = "linear_ramp"
  /\ PadCall
  /\ UNCHANGED <<pd_array, pd_pad_width, pd_mode, pd_kwargs, notPad>>

PadStats ==
  /\ pd_padded = NotCalled /\ pd_mode \in StatModes
  /\ \E und \in Undefined :
       pd_padded' = pad(pd_array, pd_pad_width, pd_mode, pd_kwargs, und)
  /\ UNCHANGED <<pd_array, pd_pad_width, pd_mode, pd_kwargs, notPad>>

PadEmpty ==
  /\ pd_padded = NotCalled /\ pd_mode = "empty"
  /\ PadCall
  /\ UNCHANGED <<pd_array, pd_pad_width, pd_mode, pd_kwargs, notPad>>

NextPad == \/ PadConstant \/ PadWrap \/ PadSymmetricOrReflect \/ PadEdge
           \/ PadLinearRamp \/ PadStats \/ PadEmpty

SpecPad == InitPad /\ [][NextPad]_vars

(***************************************************************************)
(* Claims about pad.                                                       *)
(***************************************************************************)
PadReturned == pd_padded # NotCalled /\ pd_padded.err = ""

\* w[i].before and w[i].after as the caller's width spec reads: one integer
\* for every side, one (before, after) pair for every axis, or a row per axis
WidthOf(i, s) ==
  LET w == pd_pad_width
  IN  IF ndim(w) = 0 THEN w.elems[<<>>]
      ELSE IF ndim(w) = 1 THEN w.elems[<<s>>]
      ELSE IF w.shape[1] = 1 THEN w.elems[<<0, s>>]
      ELSE w.elems[<<i, s>>]
WidthBefore(i) == WidthOf(i, 0)
WidthAfter(i) == WidthOf(i, 1)

Axes(A) == 0..(ndim(A) - 1)
NoZeroLengthAxis(A) == \A i \in Axes(A) : At(A.shape, i) > 0

\* the widths the caller wrote: one of them negative, one of them not an
\* integer (an odd number of halves), or all of them valid
AnyNegativeWidth(w) == \E idx \in DOMAIN w.elems : w.elems[idx] < 0
AnyNonIntegerWidth(w) ==
  IsFloat(w) /\ \E idx \in DOMAIN w.elems : w.elems[idx] % 2 = 1
ValidWidths(w) == ~IsFloat(w) /\ ~AnyNegativeWidth(w)

\* C3: whenever pad(a, w, mode) returns, for any named mode and non-negative
\* widths, the result has the rank of a and on every axis i the length
\* a.shape[i] + w[i].before + w[i].after; and with default keyword arguments
\* it does return for every array without a zero-length axis.
C3_PadShape ==
  /\ PadReturned =>
       /\ ndim(pd_padded.arr) = ndim(pd_array)
       /\ \A i \in Axes(pd_array) :
            At(pd_padded.arr.shape, i)
              = At(pd_array.shape, i) + WidthBefore(i) + WidthAfter(i)
  /\ (pd_padded # NotCalled /\ pd_kwargs = NoKwargs
        /\ ValidWidths(pd_pad_width)
        /\ NoZeroLengthAxis(pd_array)) => pd_padded.err = ""

C3_Witness ==
  /\ PadReturned /\ pd_mode = "empty"
  /\ pd_array.shape = <<2, 1>>
  /\ pd_pad_width = Arr2(<<<<1, 0>>, <<1, 1>>>>)
  /\ pd_padded.arr.shape = <<3, 3>>

\* the region of the result that the original occupies
SliceBack(R, A) ==
  MkArray(A.shape,
          LAMBDA idx : R.elems[[k \in 1..ndim(A) |->
                                  idx[k] + WidthBefore(k - 1)]])

\* C4: whenever pad(a, w, mode) returns, slicing the result on every axis i
\* to [w[i].before : w[i].before + a.shape[i]] gives back exactly a.
C4_SliceBackIsOriginal ==
  PadReturned => SliceBack(pd_padded.arr, pd_array) = pd_array

C4_Witness ==
  /\ PadReturned /\ pd_mode = "constant"
  /\ pd_array = Iota(<<2, 2>>)
  /\ pd_pad_width = Arr2(<<<<1, 0>>, <<0, 1>>>>)
  /\ pd_kwargs = NoKwargs
  /\ ravel(pd_padded.arr) = <<0, 0, 0,  1, 2, 0,  3, 4, 0>>

\* the mirror index maps on an axis of length n >= 1, for any integer k
ReflectIndex(k, n) ==
  IF n = 1 THEN 0
  ELSE LET t == k % (2 * (n - 1))
       IN  IF t < n THEN t ELSE 2 * (n - 1) - t
SymmetricIndex(k, n) ==
  LET t == k % (2 * n)
  IN  IF t < n THEN t ELSE 2 * n - 1 - t

\* the result of applying an index map m(k, n) on every axis
Remapped(A, m(_, _)) ==
  MkArray([k \in 1..ndim(A) |->
             A.shape[k] + WidthBefore(k - 1) + WidthAfter(k - 1)],
          LAMBDA idx : A.elems[[k \in 1..ndim(A) |->
                                  m(idx[k] - WidthBefore(k - 1), A.shape[k])]])

EvenMirrorCall ==
  /\ PadReturned /\ pd_mode \in {"reflect", "symmetric"}
  /\ pd_kwargs = NoKwargs

\* C5: with reflect_type 'even', output position j of 'reflect' or
\* 'symmetric' holds a[m(j - before)] on every axis, m the mirror map of
\* period 2(n-1) for 'reflect' (edge not duplicated) and 2n for 'symmetric'
\* (edge duplicated), also when a width exceeds n; and
\* pad([1,2,3], 2, mode='reflect') is [3,2,1,2,3,2,1].
C5_EvenMirror ==
  /\ (EvenMirrorCall /\ pd_mode = "reflect") =>
       pd_padded.arr = Remapped(pd_array, ReflectIndex)
  /\ (EvenMirrorCall /\ pd_mode = "symmetric") =>
       pd_padded.arr = Remapped(pd_array, SymmetricIndex)
  /\ (EvenMirrorCall /\ pd_mode = "reflect" /\ pd_array = DocPadArray
        /\ pd_pad_width = Scalar(2)) =>
       pd_padded.arr = Arr1(<<3, 2, 1, 2, 3, 2, 1>>)

\* two bounces on each side: 3 > n - 1 = 2
C5_Witness ==
  /\ EvenMirrorCall /\ pd_mode = "reflect" /\ pd_array = DocPadArray
  /\ pd_pad_width = Arr1(<<3, 3>>)
  /\ pd_padded.arr = Arr1(<<2, 3, 2, 1, 2, 3, 2, 1, 2>>)

WrapIndex(k, n) == k % n

\* C6: output position j of 'wrap' holds a[(j - before) mod n] on every axis
\* of length n >= 1, also when a width exceeds n.
C6_WrapIsCircular ==
  (PadReturned /\ pd_mode = "wrap") =>
    pd_padded.arr = Remapped(pd_array, WrapIndex)

\* widths larger than n = 2: one full repeat and a remainder on each side
C6_Witness ==
  /\ PadReturned /\ pd_mode = "wrap" /\ pd_array = Iota(<<2>>)
  /\ pd_pad_width = Arr1(<<3, 3>>)
  /\ pd_padded.arr = Arr1(<<2, 1, 2, 1, 2, 1, 2, 1>>)

\* a zero-length axis of the array is given a nonzero width on one side
ZeroAxisPadded ==
  \E i \in Axes(pd_array) :
    /\ At(pd_array.shape, i) = 0
    /\ (WidthBefore(i) > 0 \/ WidthAfter(i) > 0)

\* C19: for every padding mode, pad of an array that has a zero-length axis
\* with a nonzero before or after width on that axis (the widths being
\* valid) fails with an error and returns no padded array.
C19_ZeroLengthAxisRejected ==
  (pd_padded # NotCalled /\ ValidWidths(pd_pad_width) /\ ZeroAxisPadded)
    => pd_padded.err # ""

\* C20: for every array, of any rank including rank 0, and every mode, pad
\* fails with an error and returns no array whenever a provided pad width is
\* negative or not an integer.
C20_InvalidWidthRejected ==
  (pd_padded # NotCalled
     /\ (AnyNegativeWidth(pd_pad_width) \/ AnyNonIntegerWidth(pd_pad_width)))
    => pd_padded.err # ""

\* a 'constant' call that gave one value per axis and side
PerSideValues ==
  /\ PadReturned /\ pd_mode = "constant"
  /\ pd_kwargs.constant_values # NoneArg
  /\ pd_kwargs.constant_values[1].shape = <<ndim(pd_array), 2>>

\* the axes on which a position of the result lies in the padding
PadRegionAxes(idx) ==
  {k \in 1..ndim(pd_array) :
     \/ idx[k] < WidthBefore(k - 1)
     \/ idx[k] >= WidthBefore(k - 1) + pd_array.shape[k]}

\* C28: 'constant' with constant_values of shape (ndim, 2) pads the axes in
\* increasing order, each on the result of the one before: a position in the
\* padding of one axis holds that axis's before or after value, a corner the
\* value of the highest-numbered axis in whose padding it lies, for the side
\* it lies on, and the other positions hold the original elements.
C28_ConstantPerSide ==
  PerSideValues =>
    LET cv == pd_kwargs.constant_values[1]
        R == pd_padded.arr
    IN  \A idx \in DOMAIN R.elems :
          IF PadRegionAxes(idx) = {}
          THEN R.elems[idx]
                 = pd_array.elems[[k \in 1..ndim(pd_array) |->
                                     idx[k] - WidthBefore(k - 1)]]
          ELSE LET k == MaxOf(PadRegionAxes(idx))
                   sd == IF idx[k] < WidthBefore(k - 1) THEN 0 ELSE 1
               IN  R.elems[idx] = cv.elems[<<k - 1, sd>>]

\* C28 witness: a 2 x 2 array padded by one on every side; the rows in front
\* and behind hold 6 and 7, the columns and the four corners 8 and 9.
C28_Witness ==
  /\ PerSideValues
  /\ pd_array = Iota(<<2, 2>>)
  /\ pd_pad_width = Arr2(<<<<1, 1>>, <<1, 1>>>>)
  /\ pd_kwargs.constant_values = Some(Arr2(<<<<6, 7>>, <<8, 9>>>>))
  /\ ravel(pd_padded.arr)
       = <<8, 6, 6, 9,  8, 1, 2, 9,  8, 3, 4, 9,  8, 7, 7, 9>>

\* the caller's widths as one row per axis, the row of axis j swapped
SwappedWidths(j) ==
  Arr2(Mat([i \in 1..ndim(pd_array) |->
              IF i = j + 1 THEN <<WidthAfter(j), WidthBefore(j)>>
              ELSE <<WidthBefore(i - 1), WidthAfter(i - 1)>>]))

MirrorModes == {"reflect", "symmetric"}

\* C22: for 'reflect' and 'symmetric', reversing pad(a, (b, c), mode) along
\* an axis equals pad(reverse(a), (c, b), mode), the widths of that axis
\* swapped; with b = c, padding then reversing equals reversing then padding.
C22_ReversalCommutes ==
  (PadReturned /\ pd_mode \in MirrorModes /\ ValidWidths(pd_pad_width)) =>
    \A j \in Axes(pd_array) :
      pad(flip(pd_array, j), SwappedWidths(j), pd_mode, pd_kwargs,
          NoUndefined) = Ok(flip(pd_padded.arr, j))

\* unequal widths, the after side needing two chunks: [1,2,3] padded (1, 3)
\* by 'reflect' is [2, 1,2,3, 2,1,2], whose reverse is [3,2,1] padded (3, 1)
C22_Witness ==
  /\ PadReturned /\ pd_mode = "reflect" /\ pd_kwargs = NoKwargs
  /\ pd_array = DocPadArray
  /\ pd_pad_width = Arr1(<<1, 3>>)
  /\ pd_padded.arr = Arr1(<<2, 1, 2, 3, 2, 1, 2>>)
  /\ pad(Arr1(<<3, 2, 1>>), Arr1(<<3, 1>>), "reflect", NoKwargs, NoUndefined)
       = Ok(Arr1(<<2, 1, 2, 3, 2, 1, 2>>))

(***************************************************************************)
(* The histogram specification: one call of histogram(a, bins, range,      *)
(* weights) with density off, on a 1-D sample.                             *)
(***************************************************************************)
HistValues == 0..MaxHistVal

\* explicit edges: non-decreasing, at least one edge
HistEdges == {e \in SeqsUpTo(HistValues, MaxEdges) : Len(e) >= 1 /\ IsSorted(e)}

HistRanges == {NoneArg} \cup
              {Some(<<lo, hi>>) : lo \in HistValues, hi \in HistValues}

\* weights: none, 1, 2, 3, ... by position, or one weight too many
HistWeights(a) == {NoneArg, Some([p \in 1..Len(a) |-> p]),
                   Some([p \in 1..(Len(a) + 1) |-> 1])}

Scaled(x, unit) == [p \in 1..Len(x) |-> unit * x[p]]
ScaledRange(r, unit) ==
  IF r = NoneArg THEN NoneArg ELSE Some(<<unit * r[1][1], unit * r[1][2]>>)

DocHistSample == <<1, 2, 3, 10, 11, 15, 19, 25>>
DocHistBins == 8

InitHist ==
  /\ TwiceIdle
  /\ ChunkIdle
  /\ LowerIdle
  /\ SearchIdle /\ RepeatIdle /\ PadIdle /\ DdIdle /\ EditIdle
  /\ FillIdle /\ DigitizeIdle /\ PairsIdle
  /\ hs_result = NotCalled
  /\ \/ \* bins given as an array of edges
        /\ hs_unit = 1
        /\ hs_a \in SeqsUpTo(HistValues, MaxSamples)
        /\ hs_bins \in {Arr1(e) : e \in HistEdges}
        /\ hs_range = NoneArg
        /\ hs_weights \in HistWeights(hs_a)
     \/ \* bins given as a count
        \E k \in 0..MaxBins, x \in SeqsUpTo(HistValues, MaxSamples),
           r \in HistRanges :
          /\ r # NoneArg => r[1][1] <= r[1][2]
          /\ hs_unit = 2 * MaxOf({k, 1})
          /\ hs_a = Scaled(x, hs_unit)
          /\ hs_bins = Scalar(k)
          /\ hs_range = ScaledRange(r, hs_unit)
          /\ hs_weights \in HistWeights(x)
     \/ \* the documented example
        /\ hs_unit = 2 * DocHistBins
        /\ hs_a = Scaled(DocHistSample, hs_unit)
        /\ hs_bins = Scalar(DocHistBins)
        /\ hs_range = NoneArg
        /\ hs_weights = NoneArg

HistogramCall ==
  /\ hs_result = NotCalled
  /\ hs_result' = histogram(hs_a, hs_bins, hs_range, hs_weights, hs_unit)
  /\ UNCHANGED <<hs_a, hs_bins, hs_range, hs_weights, hs_unit, notHist>>

\* bins is a 1-D array: histogram_bin_edges returns it as the edges
HistogramOfEdges == ndim(hs_bins) = 1 /\ HistogramCall

\* bins is a count: the edges are evenly spaced over the range
HistogramOfBinCount == ndim(hs_bins) = 0 /\ HistogramCall

NextHist == HistogramOfEdges \/ HistogramOfBinCount

SpecHist == InitHist /\ [][NextHist]_vars

(***************************************************************************)
(* Claims about histogram.                                                 *)
(***************************************************************************)
HistReturned == hs_result # NotCalled /\ hs_result.err = ""

HistWeightOf(p) == IF hs_weights = NoneArg THEN 1 ELSE hs_weights[1][p]

RECURSIVE WeightOver(_)
WeightOver(P) ==
  IF P = {} THEN 0
  ELSE LET p == CHOOSE q \in P : TRUE
       IN  HistWeightOf(p) + WeightOver(P \ {p})

\* the samples (positions in a) that the rule puts in bin i (0-based) of the
\* k bins with edges E[1..k+1]
InBin(E, i) ==
  LET k == Len(E) - 1
  IN  {p \in 1..Len(hs_a) :
         \/ E[i + 1] <= hs_a[p] /\ hs_a[p] < E[i + 2]
         \/ i = k - 1 /\ hs_a[p] = E[k + 1]}

\* C7: with k bins given by k+1 increasing edges, the count of bin i is the
\* weight of the samples x with edges[i] <= x < edges[i+1], a sample equal to
\* the final edge counting in the last bin; so a sample below edges[0] or
\* above edges[k] counts nowhere; and histogram([1,2,3,10,11,15,19,25],
\* bins=8) gives [3,0,0,2,1,0,1,1].
C7_HistogramBinRule ==
  /\ HistReturned =>
       LET E == hs_result.bin_edges
       IN  /\ Len(hs_result.counts) = Len(E) - 1
           /\ \A i \in 0..(Len(E) - 2) :
                hs_result.counts[i + 1] = WeightOver(InBin(E, i))
  /\ (HistReturned /\ hs_a = Scaled(DocHistSample, 2 * DocHistBins)
        /\ hs_bins = Scalar(DocHistBins)) =>
       hs_result.counts = <<3, 0, 0, 2, 1, 0, 1, 1>>

\* a sample on the final edge, which is also an inner edge, and a sample
\* below the first edge
C7_Witness ==
  /\ HistReturned
  /\ hs_bins = Arr1(<<1, 2, 2>>)
  /\ hs_a = <<2, 0>>
  /\ hs_weights = NoneArg
  /\ hs_result.counts = <<0, 1>>

HistTotalWeight == WeightOver(1..Len(hs_a))

SamplesWithinEdges(E) ==
  \A p \in 1..Len(hs_a) : E[1] <= hs_a[p] /\ hs_a[p] <= E[Len(E)]

\* C8 as stated: with every sample inside [edges[0], edges[-1]] the counts sum
\* to the total weight (the number of samples without weights), whatever the
\* number of edges.
C8_ConservesWeight_AnyEdges ==
  (HistReturned /\ SamplesWithinEdges(hs_result.bin_edges)) =>
    SeqSum(hs_result.counts) = HistTotalWeight

\* C8, amended: with at least two edges (at least one bin) and every sample
\* inside [edges[0], edges[-1]], the counts sum to the total weight (the
\* number of samples without weights).
C8_ConservesWeight ==
  (HistReturned /\ Len(hs_result.bin_edges) >= 2
     /\ SamplesWithinEdges(hs_result.bin_edges)) =>
    SeqSum(hs_result.counts) = HistTotalWeight

\* weighted samples on the first and on the final edge
C8_Witness ==
  /\ HistReturned
  /\ hs_bins = Arr1(<<1, 2, 3>>)
  /\ hs_a = <<3, 1>>
  /\ hs_weights = Some(<<1, 2>>)
  /\ hs_result.counts = <<2, 1>>

(***************************************************************************)
(* The histogramdd specification: one call of histogramdd(sample, bins,    *)
(* range, weights) with density off.                                       *)
(***************************************************************************)
DdValues == 0..MaxDdVal

\* the (n, d) samples with coordinates in DdValues
DdSamples(n, d) ==
  {MkArray(<<n, d>>, LAMBDA idx : f[FlatIndex(idx, <<n, d>>) + 1]) :
     f \in [1..(n * d) -> DdValues]}

DdEdges == {e \in SeqsUpTo(DdValues, MaxDdEdges) : Len(e) >= 1 /\ IsSorted(e)}

\* weights: none, or 1, 2, 3, ... by position; one weight for no samples
DdWeights(n) == {NoneArg, Some([p \in 1..n |-> p])}
                \cup (IF n = 0 THEN {Some(<<1>>)} ELSE {})

\* range: none, or the same (lo, hi) on each of d dimensions
DdRanges(d) ==
  {NoneArg} \cup
  {Some([i \in 1..d |-> Some(r)]) :
     r \in {lh \in DdValues \X DdValues : lh[1] <= lh[2]}}

ScaledArray(A, unit) == MkArray(A.shape, LAMBDA idx : unit * A.elems[idx])
ScaledDdRange(r, unit) ==
  IF r = NoneArg THEN NoneArg
  ELSE Some([i \in 1..Len(r[1]) |->
               Some(<<unit * r[1][i][1][1], unit * r[1][i][1][2]>>)])

InitDd ==
  /\ TwiceIdle
  /\ ChunkIdle
  /\ LowerIdle
  /\ SearchIdle /\ RepeatIdle /\ PadIdle /\ HistIdle /\ EditIdle
  /\ FillIdle /\ DigitizeIdle /\ PairsIdle
  /\ dd_result = NotCalled
  /\ \/ \* an edge array per dimension
        \E d \in 1..2, n \in 0..MaxDdSamples :
          /\ d = 2 => n < MaxDdSamples
          /\ dd_unit = 1
          /\ dd_sample \in DdSamples(n, d)
          /\ dd_bins \in {BinsList([i \in 1..d |-> Arr1(es[i])]) :
                            es \in [1..d -> DdEdges]}
          /\ dd_range = NoneArg
          /\ dd_weights \in DdWeights(n)
     \/ \* one bin count for every dimension
        \E d \in 1..3, n \in 0..MaxDdSamples, k \in 0..MaxBins :
          /\ d = 3 => n < MaxDdSamples
          /\ dd_unit = 2 * MaxOf({k, 1})
          /\ dd_sample \in {ScaledArray(s, dd_unit) : s \in DdSamples(n, d)}
          /\ dd_bins = BinsInt(k)
          /\ dd_range \in {ScaledDdRange(r, dd_unit) : r \in DdRanges(d)}
          /\ dd_weights \in DdWeights(n)
     \/ \* an edge array on the first dimension and a count on the second
        \E n \in 0..MaxDdSamples, k \in 1..MaxBins :
          /\ dd_unit = 2 * k
          /\ dd_sample \in {ScaledArray(s, dd_unit) : s \in DdSamples(n, 2)}
          /\ dd_bins \in {BinsList(<<Arr1(Scaled(e, dd_unit)), Scalar(k)>>) :
                            e \in DdEdges}
          /\ dd_range = NoneArg
          /\ dd_weights \in DdWeights(n)
     \/ \* a bins list or a range that is not one entry per dimension
        /\ dd_unit = 1
        /\ dd_sample \in DdSamples(1, 2)
        /\ \/ /\ dd_bins \in {BinsList(<<Arr1(e)>>) : e \in DdEdges}
              /\ dd_range = NoneArg
           \/ /\ dd_bins = BinsInt(1)
              /\ dd_range \in DdRanges(1) \ {NoneArg}
        /\ dd_weights = NoneArg

HistogramddCall ==
  /\ dd_result = NotCalled
  /\ dd_result' = histogramdd(dd_sample, dd_bins, dd_range, dd_weights,
                              dd_unit)
  /\ UNCHANGED <<dd_sample, dd_bins, dd_range, dd_weights, dd_unit, notDd>>

\* bins is a sequence: one entry per dimension
HistogramddOfList == dd_bins.is_list /\ HistogramddCall

\* bins is an integer: the same count for each dimension
HistogramddOfBinCount == ~dd_bins.is_list /\ HistogramddCall

NextDd == HistogramddOfList \/ HistogramddOfBinCount

SpecDd == InitDd /\ [][NextDd]_vars

(***************************************************************************)
(* Claims about histogramdd.                                               *)
(***************************************************************************)
DdReturned == dd_result # NotCalled /\ dd_result.err = ""

DdWeightOf(p) == IF dd_weights = NoneArg THEN 1 ELSE dd_weights[1][p]

RECURSIVE DdWeightOver(_)
DdWeightOver(P) ==
  IF P = {} THEN 0
  ELSE LET p == CHOOSE q \in P : TRUE
       IN  DdWeightOf(p) + DdWeightOver(P \ {p})

\* x falls in bin i (0-based) of the bins with edges E: half-open, the final
\* edge closed
FallsInBin(x, E, i) ==
  \/ E[i + 1] <= x /\ x < E[i + 2]
  \/ i = Len(E) - 2 /\ x = E[Len(E)]

\* the samples whose coordinate falls in bin idx[d] on every axis d
DdInBins(Es, idx) ==
  {p \in 1..dd_sample.shape[1] :
     \A d \in 1..Len(Es) :
       FallsInBin(dd_sample.elems[<<p - 1, d - 1>>], Es[d], idx[d])}

\* the accumulator slot of a tuple of per-axis slots
FlatSlot(t, nbins) ==
  ravel_multi_index([d \in 1..Len(nbins) |-> <<t[d]>>], nbins, "clip").idx[1]

\* C9: histogramdd with k_d bins on axis d returns counts of shape
\* (k_1, ..., k_D); entry (i_1, ..., i_D) is the total weight of the samples
\* whose d-th coordinate falls in bin i_d on every axis (final edge closed),
\* so a sample out of range on some axis counts in no entry; and the flat
\* index sends different tuples of per-axis slots to different accumulator
\* slots, all inside the accumulator.
C9_HistogramddCounts ==
  DdReturned =>
    LET Es == dd_result.bin_edges_by_dim
        ks == [d \in 1..Len(Es) |-> Len(Es[d]) - 1]
        nbins == [d \in 1..Len(Es) |-> Len(Es[d]) + 1]
    IN  /\ Len(Es) = dd_sample.shape[2]
        /\ dd_result.hist.shape = ks
        /\ \A idx \in Indices(ks) :
             dd_result.hist.elems[idx] = DdWeightOver(DdInBins(Es, idx))
        \* as many distinct slots as tuples: no two tuples share a slot
        /\ LET slots == {FlatSlot(t, nbins) : t \in Indices(nbins)}
           IN  /\ slots \subseteq 0..(SeqProd(nbins) - 1)
               /\ Cardinality(slots) = Cardinality(Indices(nbins))

\* 2 x 2 bins over [1, 2] on both axes (edges 1, 1.5, 2; unit 4): the first
\* sample lies on the final edge of axis 1, the second is below the range on
\* axis 0
C9_Witness ==
  /\ DdReturned
  /\ dd_bins = BinsInt(2) /\ dd_unit = 4
  /\ dd_range = Some(<<Some(<<4, 8>>), Some(<<4, 8>>)>>)
  /\ dd_sample = Arr2(<<<<4, 8>>, <<0, 4>>>>)
  /\ dd_weights = Some(<<1, 2>>)
  /\ dd_result.hist = Arr2(<<<<0, 1>>, <<0, 0>>>>)

(***************************************************************************)
(* The insert specification: one call of insert(arr, obj, values, axis),   *)
(* then one call of delete on the array it returned, at the slots that     *)
(* hold the inserted values.                                               *)
(***************************************************************************)
\* arrays of distinct values 11, 12, ... in row-major order
EditArrays1 == {MkArray(<<n>>, LAMBDA idx : 11 + idx[1]) : n \in 0..MaxEditLen}
EditArrays2 ==
  {MkArray(<<r, c>>, LAMBDA idx : 11 + FlatIndex(idx, <<r, c>>)) :
     r \in 1..(MaxEditLen - 1), c \in 1..(MaxEditLen - 1)}
EditArrays == EditArrays1 \cup EditArrays2

EditAxes(A) == {NoneArg} \cup {Some(ax) : ax \in (-ndim(A))..(ndim(A) - 1)}

\* the array that is edited, the axis, and the length of that axis
EditedArray(A, axis) == IF axis = NoneArg THEN Arr1(ravel(A)) ELSE A
EditedAxis(A, axis) ==
  IF axis = NoneArg THEN 0 ELSE canon_index(axis[1], ndim(A))
EditedLen(A, axis) == At(EditedArray(A, axis).shape, EditedAxis(A, axis))

\* obj of insert on an axis of length n: an index, a vector of indices (each
\* from one below -n to one above n), or a slice
InsertObjs(n) ==
  {Scalar(i) : i \in (-(n + 1))..(n + 1)}
    \cup {Arr1(x) : x \in SeqsUpTo((-(n + 1))..(n + 1), MaxInserts)}
    \cup {SliceObj(NoneArg, NoneArg, 2), SliceObj(Some(1), NoneArg, 1)}

\* how many values the call inserts when it is given one value per index
InsertCount(obj, n) ==
  IF IsSlice(obj) THEN Len(slice_indices(obj, n)) ELSE size(obj)

\* values: one scalar for every index, or one value (one lane of the other
\* axes) per index, 91, 92, ... in row-major order
InsertValues(A, axis, obj) ==
  LET E == EditedArray(A, axis)
      ax == EditedAxis(A, axis)
      shape == [E.shape EXCEPT ![ax + 1] = InsertCount(obj, E.shape[ax + 1])]
  IN  {Scalar(90), MkArray(shape, LAMBDA idx : 91 + FlatIndex(idx, shape))}
        \cup (IF ndim(E) = 1 /\ ~IsSlice(obj) /\ size(obj) = 1
              THEN {Arr1(<<91, 92>>)} ELSE {})

\* the calls of the docstring
DocInsertArray == Arr1(<<0, 1, 2, 3, 4>>)
DocInsertArray2 == Arr2(<<<<1, 2, 3>>, <<4, 5, 6>>>>)
DocInsertCalls ==
  { <<DocInsertArray, Scalar(2), Scalar(99), NoneArg>>,
    <<DocInsertArray, SliceObj(NoneArg, NoneArg, 2), Scalar(-1), NoneArg>>,
    <<DocInsertArray, Arr1(<<4, 2, 5>>), Arr1(<<10, 11, 12>>), NoneArg>>,
    <<DocInsertArray2, Arr1(<<1, 3>>), Arr2(<<<<10, 11>>, <<12, 13>>>>), Some(1)>> }

InitInsert ==
  /\ TwiceIdle
  /\ ChunkIdle
  /\ LowerIdle
  /\ SearchIdle /\ RepeatIdle /\ PadIdle /\ HistIdle /\ DdIdle
  /\ FillIdle /\ DigitizeIdle /\ PairsIdle
  /\ \/ \E A \in EditArrays : \E axis \in EditAxes(A) :
          \E obj \in InsertObjs(EditedLen(A, axis)) :
            \E v \in InsertValues(A, axis, obj) :
               /\ ed_arr = A /\ ed_axis = axis /\ ed_obj = obj /\ ed_values = v
     \/ \E call \in DocInsertCalls :
          /\ ed_arr = call[1] /\ ed_obj = call[2] /\ ed_values = call[3]
          /\ ed_axis = call[4]
  /\ ed_assume_unique \in BOOLEAN
  /\ ed_out = NotCalled /\ ed_back = NotCalled

Insert ==
  /\ ed_out = NotCalled
  /\ ed_out' = insert(ed_arr, ed_obj, ed_values, ed_axis)
  /\ UNCHANGED <<ed_arr, ed_obj, ed_values, ed_axis, ed_assume_unique, ed_back>>
  /\ UNCHANGED notEdit

\* the insertion indices as given, one per inserted value
InsertedIndices ==
  LET n == EditedLen(ed_arr, ed_axis)
      m == At(ed_out.arr.shape, EditedAxis(ed_arr, ed_axis)) - n
  IN  IF IsSlice(ed_obj) THEN slice_indices(ed_obj, n)
      ELSE broadcast_to_len(ravel(ed_obj), m)

\* an index counted from the start of an axis of length n
FromStart(i, n) == IF i < 0 THEN i + n ELSE i

\* adjusted_i[j] = i[j] + number of insertion indices smaller than i[j]
adjusted_i ==
  LET n == EditedLen(ed_arr, ed_axis)
      i == Mat([j \in 1..Len(InsertedIndices) |->
                  FromStart(InsertedIndices[j], n)])
  IN  Mat([j \in 1..Len(i) |->
             i[j] + Cardinality({u \in 1..Len(i) : i[u] < i[j]})])

\* delete(insert(arr, i, v), adjusted_i), along the axis of the insert
DeleteInserted ==
  /\ ed_out # NotCalled /\ ed_out.err = "" /\ ed_back = NotCalled
  /\ ed_back' = delete(ed_out.arr,
                       IF ~IsSlice(ed_obj) /\ ndim(ed_obj) = 0
                          /\ Len(adjusted_i) = 1
                       THEN Scalar(adjusted_i[1]) ELSE Arr1(adjusted_i),
                       IF ed_axis = NoneArg THEN Some(0) ELSE ed_axis,
                       ed_assume_unique)
  /\ UNCHANGED <<ed_arr, ed_obj, ed_values, ed_axis, ed_assume_unique, ed_out>>
  /\ UNCHANGED notEdit

NextInsert == Insert \/ DeleteInserted

SpecInsert == InitInsert /\ [][NextInsert]_vars

(***************************************************************************)
(* Claims about insert                                                     *)
(***************************************************************************)
InsertReturned == ed_out # NotCalled /\ ed_back = NotCalled

\* the value v[j] inserted for index j (1-based) in the lane of output index
\* idx: values is read with the rank of the array and, for a 0-d obj, with
\* its first axis as the axis of the insert; an axis of length 1 is shared
InsertedValue(idx, j) ==
  LET E == EditedArray(ed_arr, ed_axis)
      ax == EditedAxis(ed_arr, ed_axis)
      v0 == with_ndmin(ed_values, ndim(E))
      v == IF ~IsSlice(ed_obj) /\ ndim(ed_obj) = 0
           THEN moveaxis_from_0(v0, ax) ELSE v0
  IN  broadcast_elem(v, [idx EXCEPT ![ax + 1] = j - 1])

\* The placement of the values of an insert whose index j is read as
\* position pos[j] of the axis: the axis has n + m slots; value j sits in the
\* slot that has exactly pos[j] original elements before it, values of equal
\* position in their given order; the other slots hold the n original
\* elements in their order.
InsertPlaces(pos) ==
  LET E == EditedArray(ed_arr, ed_axis)
      ax == EditedAxis(ed_arr, ed_axis)
      n == EditedLen(ed_arr, ed_axis)
      m == Len(pos)
      res == ed_out.arr
      slot(j) == pos[j] + Cardinality({u \in 1..m :
                    pos[u] < pos[j] \/ (pos[u] = pos[j] /\ u < j)})
      value_slots == {slot(j) : j \in 1..m}
      originals_before(s) == Cardinality((0..(s - 1)) \ value_slots)
  IN  /\ ed_out.err = ""
      /\ res.shape = [E.shape EXCEPT ![ax + 1] = n + m]
      /\ \A j \in 1..m : pos[j] \in 0..n
      /\ Cardinality(value_slots) = m
      /\ \A idx \in Indices(res.shape) :
           LET s == idx[ax + 1]
           IN  IF s \in value_slots
               THEN \E j \in 1..m : /\ slot(j) = s
                                    /\ originals_before(s) = pos[j]
                                    /\ res.elems[idx] = InsertedValue(idx, j)
               ELSE res.elems[idx] =
                      E.elems[[idx EXCEPT ![ax + 1] = originals_before(s)]]

\* every index of the call lies in [-n, n]
InsertInRange ==
  \A j \in 1..Len(InsertedIndices) :
     /\ -EditedLen(ed_arr, ed_axis) <= InsertedIndices[j]
     /\ InsertedIndices[j] <= EditedLen(ed_arr, ed_axis)

\* the statement of C13 for every index: value j has exactly idx[j] original
\* elements before it, a negative idx[j] counting from the end.
C13_InsertPlaces_AnyIndex ==
  InsertReturned =>
    InsertPlaces(Mat([j \in 1..Len(InsertedIndices) |->
                   FromStart(InsertedIndices[j], EditedLen(ed_arr, ed_axis))]))

\* C13: insert(a, idx, v) along an axis of length n with m insertion indices
\* returns an axis of length n + m that holds the n original elements in
\* their order and puts value v[j] where exactly idx[j] original elements
\* precede it (a negative idx[j] counts from the end, and an index that is
\* then still outside [0, n] is moved to the nearer of 0 and n); values of
\* equal index keep their given order, and no slot is written by both an
\* original element and an inserted value.
C13_InsertPlaces ==
  InsertReturned =>
    /\ InsertPlaces(wrap_and_clip(InsertedIndices, EditedLen(ed_arr, ed_axis)))
    /\ InsertInRange =>
         wrap_and_clip(InsertedIndices, EditedLen(ed_arr, ed_axis))
           = Mat([j \in 1..Len(InsertedIndices) |->
                FromStart(InsertedIndices[j], EditedLen(ed_arr, ed_axis))])
    /\ (ed_arr = DocInsertArray /\ ed_obj = Arr1(<<4, 2, 5>>)
          /\ ed_values = Arr1(<<10, 11, 12>>))
         => ed_out.arr = Arr1(<<0, 1, 11, 2, 3, 10, 4, 12>>)
    /\ (ed_arr = DocInsertArray2 /\ ed_obj = Arr1(<<1, 3>>))
         => ed_out.arr = Arr2(<<<<1, 10, 2, 3, 11>>, <<4, 12, 5, 6, 13>>>>)

\* C13 witness: two values were inserted at the same index, given after a
\* larger index and as a negative index.
C13_Witness ==
  /\ InsertReturned
  /\ ed_arr = Arr1(<<11, 12, 13>>) /\ ed_axis = Some(0)
  /\ ed_obj = Arr1(<<2, -2>>) /\ ed_values = Arr1(<<91, 92>>)
  /\ ed_out.arr = Arr1(<<11, 92, 12, 91, 13>>)

\* the indices of the call, counted from the start, are pairwise different
InsertUnique ==
  LET n == EditedLen(ed_arr, ed_axis)
  IN  \A j, u \in 1..Len(InsertedIndices) :
         j # u => FromStart(InsertedIndices[j], n) # FromStart(InsertedIndices[u], n)

\* C15: for unique in-range insertion indices i, delete(insert(a, i, v),
\* adjusted_i) with adjusted_i[j] = i[j] + number of insertion indices smaller
\* than i[j] returns exactly a (flattened when axis is None), with and
\* without assume_unique_indices.
C15_InsertDeleteRoundTrip ==
  (ed_back # NotCalled /\ InsertUnique /\ InsertInRange) =>
    ed_back = Ok(EditedArray(ed_arr, ed_axis))

\* C15 witness: the round trip was made for two indices given in descending
\* order, one of them negative, and for the end of the axis.
C15_Witness ==
  /\ ed_back # NotCalled /\ InsertUnique /\ InsertInRange
  /\ ed_arr = Arr1(<<11, 12, 13>>) /\ ed_obj = Arr1(<<3, -2>>)
  /\ ed_values = Arr1(<<91, 92>>) /\ ed_assume_unique
  /\ ed_out.arr = Arr1(<<11, 92, 12, 13, 91>>)
  /\ ed_back.arr = ed_arr

(***************************************************************************)
(* The delete specification: one call of delete(arr, obj, axis,            *)
(* assume_unique_indices).                                                 *)
(***************************************************************************)
\* obj of delete on an axis of length n
DeleteIndexObjs(n) == {Scalar(i) : i \in (-(n + 1))..n}
DeleteVectorObjs(n) ==
  {Arr1(x) : x \in SeqsUpTo((-(n + 1))..n, MaxInserts)}
DeleteSliceObjs ==
  { SliceObj(NoneArg, NoneArg, 2), SliceObj(Some(1), Some(4), 1),
    SliceObj(Some(-2), NoneArg, 1), SliceObj(NoneArg, Some(1), 1) }
DeleteMaskObjs(n) ==
  {MaskObj(m) : m \in [1..n -> BOOLEAN]} \cup {MaskObj(<<TRUE>>)}

\* the arrays of the docstring
DocDeleteArray == Arr1(<<4, 5, 6, 7, 8, 9>>)
DocDeleteArray2 == Arr2(<<<<4, 5, 6>>, <<7, 8, 9>>>>)
DocDeleteCalls ==
  { <<DocDeleteArray, Scalar(2), NoneArg>>,
    <<DocDeleteArray, SliceObj(Some(1), Some(4), 1), NoneArg>>,
    <<DocDeleteArray, SliceObj(NoneArg, NoneArg, 2), NoneArg>>,
    <<DocDeleteArray, Arr1(<<0, 1, 3>>), NoneArg>>,
    <<DocDeleteArray2, Scalar(1), Some(1)>> }

InitDelete ==
  /\ TwiceIdle
  /\ ChunkIdle
  /\ LowerIdle
  /\ SearchIdle /\ RepeatIdle /\ PadIdle /\ HistIdle /\ DdIdle
  /\ FillIdle /\ DigitizeIdle /\ PairsIdle
  /\ \/ \E A \in EditArrays : \E axis \in EditAxes(A) :
          /\ ed_arr = A /\ ed_axis = axis
          /\ ed_obj \in DeleteIndexObjs(EditedLen(A, axis))
                          \cup DeleteVectorObjs(EditedLen(A, axis))
                          \cup DeleteSliceObjs
                          \cup DeleteMaskObjs(EditedLen(A, axis))
     \/ \E call \in DocDeleteCalls :
          ed_arr = call[1] /\ ed_obj = call[2] /\ ed_axis = call[3]
  /\ ed_assume_unique \in BOOLEAN
  /\ ed_values = Scalar(0)
  /\ ed_out = NotCalled /\ ed_back = NotCalled

DeleteCall ==
  /\ ed_out = NotCalled
  /\ ed_out' = delete(ed_arr, ed_obj, ed_axis, ed_assume_unique)
  /\ UNCHANGED <<ed_arr, ed_obj, ed_values, ed_axis, ed_assume_unique, ed_back>>
  /\ UNCHANGED notEdit

IsIndexArray(obj) == ~IsSlice(obj) /\ ~IsMask(obj)

\* Case 1: obj is a static integer
DeleteStaticInteger ==
  /\ IsIndexArray(ed_obj) /\ ndim(ed_obj) = 0
  /\ DeleteCall

\* Case 2: obj is a static slice
DeleteStaticSlice ==
  /\ IsSlice(ed_obj)
  /\ DeleteCall

\* Case 3a: obj is an array of integers that are assumed unique
DeleteUniqueIndices ==
  /\ IsIndexArray(ed_obj) /\ ndim(ed_obj) = 1 /\ ed_assume_unique
  /\ DeleteCall

\* Case 3b: obj is a static array of integers or a boolean mask
DeleteByMask ==
  /\ \/ IsIndexArray(ed_obj) /\ ndim(ed_obj) = 1 /\ ~ed_assume_unique
     \/ IsMask(ed_obj)
  /\ DeleteCall

NextDelete ==
  \/ DeleteStaticInteger
  \/ DeleteStaticSlice
  \/ DeleteUniqueIndices
  \/ DeleteByMask

SpecDelete == InitDelete /\ [][NextDelete]_vars

(***************************************************************************)
(* Claims about delete                                                     *)
(***************************************************************************)
DeleteReturned == ed_out # NotCalled /\ ed_values = Scalar(0)

\* the positions obj names, as written
DeletePositions ==
  IF IsSlice(ed_obj) THEN slice_indices(ed_obj, EditedLen(ed_arr, ed_axis))
  ELSE ravel(ed_obj)

\* obj is a set of unique in-range integer positions and the call is one with
\* assume_unique_indices=True, or obj is a static slice
DeleteUniqueInRange ==
  LET n == EditedLen(ed_arr, ed_axis)
  IN  /\ ~IsMask(ed_obj)
      /\ IsSlice(ed_obj) \/ ed_assume_unique
      /\ \A j \in 1..Len(DeletePositions) :
            -n <= DeletePositions[j] /\ DeletePositions[j] < n
      /\ \A j, u \in 1..Len(DeletePositions) :
            j # u => FromStart(DeletePositions[j], n) # FromStart(DeletePositions[u], n)

\* C14: for a set idx of unique, in-range integer positions (in any order,
\* negative values counting from the end) delete(a, idx,
\* assume_unique_indices=True), and delete with a static slice, returns the
\* n - |idx| elements of a whose positions are not in idx, in their order:
\* output slot q reads the source index s that is not deleted and equals q
\* plus the number of deleted positions at or before s.
C14_DeleteUnique ==
  (DeleteReturned /\ DeleteUniqueInRange) =>
    LET E == EditedArray(ed_arr, ed_axis)
        ax == EditedAxis(ed_arr, ed_axis)
        n == EditedLen(ed_arr, ed_axis)
        D == {FromStart(DeletePositions[j], n) : j \in 1..Len(DeletePositions)}
        res == ed_out.arr
        deleted_upto(s) == Cardinality({d \in D : d <= s})
    IN  /\ ed_out.err = ""
        /\ res.shape = [E.shape EXCEPT ![ax + 1] = n - Cardinality(D)]
        /\ \A idx \in Indices(res.shape) :
             \E s \in (0..(n - 1)) \ D :
                /\ s = idx[ax + 1] + deleted_upto(s)
                /\ res.elems[idx] = E.elems[[idx EXCEPT ![ax + 1] = s]]
        /\ (ed_arr = DocDeleteArray /\ ed_obj = SliceObj(Some(1), Some(4), 1))
             => res = Arr1(<<4, 8, 9>>)
        /\ (ed_arr = DocDeleteArray /\ ed_obj = Arr1(<<0, 1, 3>>))
             => res = Arr1(<<6, 8, 9>>)

\* C14 witness: two positions given in descending order, one of them
\* negative, were deleted with assume_unique_indices=True.
C14_Witness ==
  /\ DeleteReturned /\ DeleteUniqueInRange
  /\ ed_arr = Arr1(<<11, 12, 13>>) /\ ed_obj = Arr1(<<2, -3>>)
  /\ ed_assume_unique
  /\ ed_out.arr = Arr1(<<12>>)

\* obj is a static integer or a static array of integers and the call is one
\* without assume_unique_indices
DeleteStatic == IsIndexArray(ed_obj) /\ ~ed_assume_unique

DeleteInRange ==
  LET n == EditedLen(ed_arr, ed_axis)
  IN  \A j \in 1..Len(DeletePositions) :
        -n <= DeletePositions[j] /\ DeletePositions[j] < n

\* the result is a without the positions D of the edited axis, in order
KeepsAllBut(D) ==
  LET E == EditedArray(ed_arr, ed_axis)
      ax == EditedAxis(ed_arr, ed_axis)
      n == EditedLen(ed_arr, ed_axis)
      res == ed_out.arr
      kept_before(s) == Cardinality({t \in (0..(n - 1)) \ D : t < s})
  IN  /\ ed_out.err = ""
      /\ res.shape = [E.shape EXCEPT ![ax + 1] = n - Cardinality(D)]
      /\ \A s \in (0..(n - 1)) \ D :
           \A idx \in Indices(res.shape) :
             idx[ax + 1] = kept_before(s) =>
               res.elems[idx] = E.elems[[idx EXCEPT ![ax + 1] = s]]

\* C23: delete(a, idx) with static integer indices and without
\* assume_unique_indices removes exactly the set of distinct positions idx
\* names (a duplicated index removes its position once, the output length
\* is n minus the number of distinct positions), and an index outside
\* [-n, n-1] raises an error instead of producing an array.
C23_DeleteStatic ==
  (DeleteReturned /\ DeleteStatic) =>
    LET n == EditedLen(ed_arr, ed_axis)
    IN  IF DeleteInRange
        THEN KeepsAllBut({FromStart(DeletePositions[j], n) :
                            j \in 1..Len(DeletePositions)})
        ELSE ed_out.err # ""

\* C23 witness: position 1 named twice, as 1 and as -2, is removed once.
C23_Witness ==
  /\ DeleteReturned /\ DeleteStatic
  /\ ed_arr = Arr1(<<11, 12, 13>>) /\ ed_obj = Arr1(<<1, -2>>)
  /\ ed_out = Ok(Arr1(<<11, 13>>))

(***************************************************************************)
(* The fill_diagonal specification: one call of fill_diagonal(a, val,      *)
(* wrap, inplace=...).                                                     *)
(***************************************************************************)
FillShapes ==
  {<<n>> : n \in 0..MaxFillLen}
    \cup {<<r, c>> : r \in 0..MaxFillLen, c \in 0..MaxFillLen}
    \cup {<<2, 2, 2>>, <<2, 2, 3>>, <<3, 2, 2>>, <<0, 0, 0>>}

\* arrays holding 0 everywhere, as in the docstring, or 1, 2, 3, ...
FillArrays ==
  {MkArray(shape, LAMBDA idx : 0) : shape \in FillShapes \cup {<<4, 4>>, <<3, 5>>}}
    \cup {Iota(shape) : shape \in FillShapes}
    \cup {Scalar(1)}

FillValues ==
  {Scalar(7)}
    \cup {Arr1([k \in 1..len |-> 70 + k]) : len \in 0..(MaxFillLen + 1)}
    \cup {Arr2(<<<<71, 72>>, <<73, 74>>>>), Arr1(<<3, 4>>)}

InitFill ==
  /\ TwiceIdle
  /\ ChunkIdle
  /\ LowerIdle
  /\ SearchIdle /\ RepeatIdle /\ PadIdle /\ HistIdle /\ DdIdle /\ EditIdle
  /\ DigitizeIdle /\ PairsIdle
  /\ fd_a \in FillArrays
  /\ fd_val \in FillValues
  /\ fd_wrap \in BOOLEAN
  /\ fd_inplace \in BOOLEAN
  /\ fd_result = NotCalled

FillDiagonal ==
  /\ fd_result = NotCalled
  /\ fd_result' = fill_diagonal(fd_a, fd_val, fd_wrap, fd_inplace)
  /\ UNCHANGED <<fd_a, fd_val, fd_wrap, fd_inplace>>
  /\ UNCHANGED notFill

NextFill == FillDiagonal

SpecFill == InitFill /\ [][NextFill]_vars

(***************************************************************************)
(* Claims about fill_diagonal                                              *)
(***************************************************************************)
\* the call is fill_diagonal(a, val, inplace=False) on a rank >= 2 array
FillCall ==
  /\ fd_result # NotCalled /\ ~fd_inplace /\ ~fd_wrap
  /\ ndim(fd_a) >= 2

OnDiagonal(idx) == \A j \in 1..Len(idx) : idx[j] = idx[1]

\* the result is a everywhere off the diagonal and val, or
\* val.ravel()[i mod len(val)], at (i, ..., i)
DiagonalFilled ==
  /\ fd_result.err = ""
  /\ fd_result.arr.shape = fd_a.shape
  /\ \A idx \in Indices(fd_a.shape) :
       fd_result.arr.elems[idx] =
         IF ~OnDiagonal(idx) THEN fd_a.elems[idx]
         ELSE IF ndim(fd_val) = 0 THEN fd_val.elems[<<>>]
         ELSE ravel(fd_val)[(idx[1] % size(fd_val)) + 1]

\* the statement of C16 for every array of rank >= 2 and every val
C16_FillDiagonal_AnyArray == FillCall => DiagonalFilled

\* fill_diagonal accepts a when it has rank 2, or a higher rank with all
\* dimensions equal, and val when it is a scalar or not empty, or when the
\* diagonal is empty
FillAccepted ==
  /\ \A j \in 2..ndim(fd_a) : ndim(fd_a) = 2 \/ fd_a.shape[j] = fd_a.shape[1]
  /\ ndim(fd_val) = 0 \/ size(fd_val) > 0 \/ MinOf(SeqRange(fd_a.shape)) = 0

\* C16: fill_diagonal(a, val, inplace=False) on an array of rank 2, or of a
\* higher rank with all dimensions equal, with val a scalar or a non-empty
\* array (or with an empty diagonal), returns an array equal to a off the
\* diagonal whose entry (i, ..., i), 0 <= i < min(a.shape), is val for a
\* scalar val and val.ravel()[i mod len(val)] for an array val; any other
\* rank >= 2 array and an empty val on a non-empty diagonal are rejected
\* with an error; a itself is left unchanged.
C16_FillDiagonal ==
  /\ [](FillCall => IF FillAccepted THEN DiagonalFilled
                    ELSE fd_result.err # "")
  /\ [][fd_a' = fd_a]_vars

\* C16 witness: a diagonal of 4 entries was filled from the 2 values [3, 4]
\* (the docstring call).
C16_Witness ==
  /\ FillCall /\ FillAccepted
  /\ fd_a = MkArray(<<4, 4>>, LAMBDA idx : 0) /\ fd_val = Arr1(<<3, 4>>)
  /\ fd_result.arr = Arr2(<<<<3, 0, 0, 0>>, <<0, 4, 0, 0>>,
                            <<0, 0, 3, 0>>, <<0, 0, 0, 4>>>>)

(***************************************************************************)
(* The digitize specification: one call of digitize(x, bins, right,        *)
(* method=...); bins in every order.                                       *)
(***************************************************************************)
DigitizeBins ==
  {Arr1(b) : b \in SeqsUpTo(1..MaxDigitizeVal, MaxDigitizeLen)}
    \cup {Scalar(1), Arr2(<<<<1, 2>>>>)}
\* x holds one or two values, from below the smallest to above the largest edge
DigitizeValues == 0..(MaxDigitizeVal + 1)
DigitizeQueries ==
  {<<q>> : q \in DigitizeValues}
    \cup {<<q, r>> : q \in DigitizeValues, r \in DigitizeValues}

\* the calls of the docstring, in units of 0.5
DocDigitizeX == <<2, 4, 5, 3, 6, 7>>
DocDigitizeCalls ==
  { <<DocDigitizeX, Arr1(<<2, 4, 6>>), FALSE>>,
    <<DocDigitizeX, Arr1(<<2, 4, 6>>), TRUE>>,
    <<DocDigitizeX, Arr1(<<6, 4, 2>>), FALSE>> }

InitDigitize ==
  /\ TwiceIdle
  /\ ChunkIdle
  /\ LowerIdle
  /\ SearchIdle /\ RepeatIdle /\ PadIdle /\ HistIdle /\ DdIdle /\ EditIdle
  /\ FillIdle /\ PairsIdle
  /\ \/ /\ dg_x \in DigitizeQueries
        /\ dg_bins \in DigitizeBins
        /\ dg_right \in BOOLEAN
        /\ dg_method \in {NoneArg} \cup {Some(m) : m \in Methods}
     \/ \E call \in DocDigitizeCalls :
          /\ dg_x = call[1] /\ dg_bins = call[2] /\ dg_right = call[3]
          /\ dg_method = NoneArg
  /\ dg_result = NotCalled

Digitize ==
  /\ dg_result = NotCalled
  /\ dg_result' = digitize(dg_x, dg_bins, dg_right, dg_method)
  /\ UNCHANGED <<dg_x, dg_bins, dg_right, dg_method>>
  /\ UNCHANGED notDigitize

NextDigitize == Digitize

SpecDigitize == InitDigitize /\ [][NextDigitize]_vars

(***************************************************************************)
(* Claims about digitize                                                   *)
(***************************************************************************)
\* the call has returned and bins is one-dimensional
DigitizeCall == dg_result # NotCalled /\ ndim(dg_bins) = 1

IsStrictlyDecreasing(b) ==
  Len(b) >= 2 /\ \A i \in 1..(Len(b) - 1) : b[i] > b[i + 1]

CountGreater(b, q) == Cardinality({j \in 1..Len(b) : b[j] > q})
CountGreaterEq(b, q) == Cardinality({j \in 1..Len(b) : b[j] >= q})

DigitizeMethod == IF dg_method = NoneArg THEN "scan" ELSE dg_method[1]

\* C17: digitize(x, bins, right) with non-decreasing bins equals
\* searchsorted(bins, x, side='left' if right else 'right'); with strictly
\* decreasing bins (two edges or more) it equals len(bins) minus the same
\* search on the reversed bins, the number of edges > x for right=False and
\* >= x for right=True; with bins in neither order it returns, without an
\* error, an index in [0, len(bins)] for every x.
C17_Digitize ==
  DigitizeCall =>
    LET b == ravel(dg_bins)
        n == Len(b)
        sd == IF dg_right THEN "left" ELSE "right"
        res == dg_result.seq
    IN  /\ dg_result.err = ""
        /\ Len(res) = Len(dg_x)
        /\ \A i \in 1..Len(dg_x) : res[i] \in 0..n
        /\ IsSorted(b) =>
             /\ res = searchsorted(b, dg_x, sd, DigitizeMethod)
             /\ \A i \in 1..Len(dg_x) :
                  res[i] = IF dg_right THEN CountLess(b, dg_x[i])
                           ELSE CountLessEq(b, dg_x[i])
        /\ IsStrictlyDecreasing(b) =>
             /\ res = Mat([i \in 1..Len(dg_x) |->
                  n - searchsorted(reversed(b), dg_x, sd, DigitizeMethod)[i]])
             /\ \A i \in 1..Len(dg_x) :
                  res[i] = IF dg_right THEN CountGreaterEq(b, dg_x[i])
                           ELSE CountGreater(b, dg_x[i])
        /\ (dg_x = DocDigitizeX /\ b = <<2, 4, 6>> /\ ~dg_right)
             => res = <<1, 2, 2, 1, 3, 3>>
        /\ (dg_x = DocDigitizeX /\ b = <<2, 4, 6>> /\ dg_right)
             => res = <<0, 1, 2, 1, 2, 3>>
        /\ (dg_x = DocDigitizeX /\ b = <<6, 4, 2>>)
             => res = <<2, 1, 1, 2, 0, 0>>

\* C17 witness: a call with strictly decreasing bins and a query equal to an
\* edge returned.
C17_Witness ==
  /\ DigitizeCall /\ IsStrictlyDecreasing(ravel(dg_bins))
  /\ ravel(dg_bins) = <<3, 2, 1>> /\ dg_x = <<2>> /\ dg_right
  /\ dg_method = NoneArg
  /\ dg_result.seq = <<2>>

(***************************************************************************)
(* The width normalizer specification: one call of                         *)
(* _broadcast_to_pairs(nvals, nd, name).                                   *)
(***************************************************************************)
PairsShapes(nd) ==
  { <<>>, <<1>>, <<2>>, <<1, 2>>, <<nd, 2>>,
    <<0>>, <<3>>, <<nd + 1, 2>>, <<2, 1>>, <<2, 3>>, <<nd, 2, 1>>, <<1, 1, 2>> }

\* arrays of pairwise different entries, and arrays of one repeated entry
PairsInputs(nd) ==
  {MkArray(shape, LAMBDA idx : FlatIndex(idx, shape) + first) :
     shape \in PairsShapes(nd), first \in 0..2}
    \cup {MkArray(shape, LAMBDA idx : 1) : shape \in PairsShapes(nd)}
    \cup {Ragged}

InitPairs ==
  /\ TwiceIdle
  /\ ChunkIdle
  /\ LowerIdle
  /\ SearchIdle /\ RepeatIdle /\ PadIdle /\ HistIdle /\ DdIdle /\ EditIdle
  /\ FillIdle /\ DigitizeIdle
  /\ bp_nd \in 0..MaxPairsNd
  /\ bp_nvals \in PairsInputs(bp_nd)
  /\ bp_result = ErrPairs("not called")

BroadcastToPairs ==
  /\ bp_result = ErrPairs("not called")
  /\ bp_result' = _broadcast_to_pairs(bp_nvals, bp_nd)
  /\ UNCHANGED <<bp_nvals, bp_nd>>
  /\ UNCHANGED notPairs

NextPairs == BroadcastToPairs

SpecPairs == InitPairs /\ [][NextPairs]_vars

(***************************************************************************)
(* Claims about the width normalizer                                       *)
(***************************************************************************)
PairsReturned == bp_result # ErrPairs("not called")

\* the shapes the normalizer accepts for nd axes
PairsShapeValid(shape, nd) ==
  shape \in {<<>>, <<1>>, <<2>>, <<1, 2>>, <<nd, 2>>}

\* C18: given a specification of shape (), (1,), (2,), (1,2) or (ndim,2) the
\* width normalizer returns exactly ndim (before, after) pairs: a scalar v
\* (or a one-element list) gives (v, v) on every axis, a single pair (b, a)
\* gives (b, a) on every axis, an (ndim,2) list gives row i to axis i; any
\* other shape and any ragged input fail with an error and return nothing.
C18_BroadcastToPairs ==
  PairsReturned =>
    IF ~IsRagged(bp_nvals) /\ PairsShapeValid(bp_nvals.shape, bp_nd)
    THEN /\ bp_result.err = ""
         /\ Len(bp_result.pairs) = bp_nd
         /\ \A i \in 1..bp_nd :
              LET e == bp_nvals.elems
              IN  bp_result.pairs[i] =
                    CASE bp_nvals.shape = <<>> -> <<e[<<>>], e[<<>>]>>
                      [] bp_nvals.shape = <<1>> -> <<e[<<0>>], e[<<0>>]>>
                      [] bp_nvals.shape = <<2>> -> <<e[<<0>>], e[<<1>>]>>
                      [] bp_nvals.shape = <<bp_nd, 2>> ->
                           <<e[<<i - 1, 0>>], e[<<i - 1, 1>>]>>
                      [] bp_nvals.shape = <<1, 2>> /\ bp_nd # 1 ->
                           <<e[<<0, 0>>], e[<<0, 1>>]>>
    ELSE bp_result.err # "" /\ bp_result.pairs = <<>>

\* C18 witness: a (2,2) list with different rows was normalized for 2 axes.
C18_Witness ==
  /\ PairsReturned
  /\ bp_nd = 2 /\ bp_nvals = Arr2(<<<<0, 1>>, <<2, 3>>>>)
  /\ bp_result = OkPairs(<<<<0, 1>>, <<2, 3>>>>)

(***************************************************************************)
(* The bin-edges specification: one call of histogram(a, bins, range) with *)
(* bins an integer count and the range given in either order.              *)
(***************************************************************************)
InitBinEdges ==
  /\ TwiceIdle
  /\ ChunkIdle
  /\ LowerIdle
  /\ SearchIdle /\ RepeatIdle /\ PadIdle /\ DdIdle /\ EditIdle
  /\ FillIdle /\ DigitizeIdle /\ PairsIdle
  /\ hs_result = NotCalled
  /\ \E k \in 0..MaxBins, x \in SeqsUpTo(HistValues, MaxSamples),
        r \in HistRanges :
       /\ hs_unit = 2 * MaxOf({k, 1})
       /\ hs_a = Scaled(x, hs_unit)
       /\ hs_bins = Scalar(k)
       /\ hs_range = ScaledRange(r, hs_unit)
       /\ hs_weights = NoneArg

\* histogram with bins a count: the edges come from histogram_bin_edges
BinEdgesOfRange == HistogramOfBinCount

NextBinEdges == BinEdgesOfRange

SpecBinEdges == InitBinEdges /\ [][NextBinEdges]_vars

\* histogram returned the edges of k >= 1 bins over a given range (lo, hi)
BinEdgesReturned == HistReturned /\ hs_range # NoneArg /\ hs_bins.elems[<<>>] >= 1
RangeLo == hs_range[1][1]
RangeHi == hs_range[1][2]
Half == hs_unit \div 2

\* k+1 evenly spaced edges from lo to hi
EvenlySpaced(E, lo, hi) ==
  LET k == Len(E) - 1
  IN  \A i \in 0..k : k * (E[i + 1] - lo) = i * (hi - lo)

\* C21: with bins an integer count k and a range (lo, hi), a range that is
\* not strictly ordered (hi <= lo) collapses to an interval of one half on
\* each side of a single value (lo - 0.5 to hi + 0.5 when lo = hi), and a
\* strictly ordered range gives k+1 evenly spaced edges from lo to hi.
C21_BinEdgesFromRange ==
  BinEdgesReturned =>
    LET E == hs_result.bin_edges
        k == hs_bins.elems[<<>>]
    IN  /\ Len(E) = k + 1
        /\ IF RangeHi <= RangeLo
           THEN \E v \in {RangeLo, RangeHi} :
                  EvenlySpaced(E, v - Half, v + Half)
           ELSE EvenlySpaced(E, RangeLo, RangeHi)

(***************************************************************************)
(* lower_mgpu_dialect.  An operation is a record of its dialect, its name, *)
(* its regions (each one block, a sequence of operations) and, for         *)
(* initialize_barrier, the number of barriers of its result type.           *)
(***************************************************************************)
Op(dialect, name) == [dialect |-> dialect, name |-> name, regions |-> <<>>, barriers |-> 0]
InitializeBarrier(n) == [dialect |-> "mosaic_gpu", name |-> "initialize_barrier", regions |-> <<>>, barriers |-> n]
IfOp(then_block) == [dialect |-> "scf", name |-> "if", regions |-> <<then_block>>, barriers |-> 0]

\* op.name.startswith("mosaic_gpu.")
is_mosaic_gpu_op(op) == op.dialect = "mosaic_gpu"

RECURSIVE walk_operations(_)
RECURSIVE walk_regions(_)
RECURSIVE walk_block(_)
\* walk_operations(op, callback): the operations the callback is called on,
\* in order: those nested in the regions of op, then op itself
walk_operations(op) == walk_regions(op.regions) \o <<op>>
walk_regions(regions) ==
  IF regions = <<>> THEN <<>>
  ELSE walk_block(Head(regions)) \o walk_regions(Tail(regions))
walk_block(block) ==
  IF block = <<>> THEN <<>>
  ELSE walk_operations(Head(block)) \o walk_block(Tail(block))

\* find_if(module, predicate) with predicate is_mosaic_gpu_op
find_if_mosaic_gpu(body) ==
  SelectSeq(walk_block(body), is_mosaic_gpu_op)

\* the lowering of initialize_barrier: per barrier, the arrival count as a
\* constant and one nvvm.mbarrier_init_shared
RECURSIVE initialize_barrier_lowering(_)
initialize_barrier_lowering(n) ==
  IF n = 0 THEN <<>>
  ELSE <<Op("arith", "constant"), Op("nvvm", "mbarrier.init.shared")>>
         \o initialize_barrier_lowering(n - 1)

OkOps(ops) == [err |-> "", ops |-> ops]
ErrOps(e) == [err |-> e, ops |-> <<>>]

RECURSIVE lower_block(_)
\* the pass without the traversal of regions
lower_op_keeps_regions(op) ==
  IF is_mosaic_gpu_op(op)
  THEN OkOps(initialize_barrier_lowering(op.barriers))
  ELSE IF op.dialect = "vector" THEN ErrOps("ValueError")
  ELSE OkOps(<<op>>)

\* the pass on one operation: a mosaic_gpu operation is replaced by its
\* lowering, a vector operation without a layout can not be lowered, and any
\* other operation is kept with the blocks of its regions lowered
lower_op(op) ==
  IF is_mosaic_gpu_op(op)
  THEN OkOps(initialize_barrier_lowering(op.barriers))
  ELSE IF op.dialect = "vector" THEN ErrOps("ValueError")
  ELSE LET lowered == [r \in 1..Len(op.regions) |-> lower_block(op.regions[r])]
       IN  IF \E r \in 1..Len(op.regions) : lowered[r].err # ""
           THEN ErrOps("ValueError")
           ELSE OkOps(<<[op EXCEPT !.regions =
                           Mat([r \in 1..Len(op.regions) |-> lowered[r].ops])]>>)

lower_block(block) ==
  IF block = <<>> THEN OkOps(<<>>)
  ELSE LET first == lower_op(Head(block))
           rest == lower_block(Tail(block))
       IN  IF first.err # "" THEN first
           ELSE IF rest.err # "" THEN rest
           ELSE OkOps(first.ops \o rest.ops)

\* lower_mgpu_dialect(module, None)
lower_mgpu_dialect(body) == lower_block(body)

(***************************************************************************)
(* The lowering specification: a module is built, as the tests build it,   *)
(* and lower_mgpu_dialect runs on it once.                                 *)
(***************************************************************************)
LeafOps ==
  {InitializeBarrier(n) : n \in 1..MaxBarriers}
  \cup {Op("arith", "constant"), Op("llvm", "mlir.undef"), Op("vector", "load")}

\* then-blocks: a yield, alone or after one operation
ThenBlocks(ops) ==
  {<<Op("scf", "yield")>>} \cup {<<o, Op("scf", "yield")>> : o \in ops}

\* operations of a body: leaves, and scf.if nested once or twice
BodyOps ==
  LeafOps \cup {IfOp(b) : b \in ThenBlocks(LeafOps)}
          \cup {IfOp(<<IfOp(b), Op("scf", "yield")>>) : b \in ThenBlocks(LeafOps)}

InitLower ==
  /\ TwiceIdle
  /\ ChunkIdle
  /\ SearchIdle /\ RepeatIdle /\ PadIdle /\ HistIdle /\ DdIdle /\ EditIdle
  /\ FillIdle /\ DigitizeIdle /\ PairsIdle
  /\ mg_module \in SeqsUpTo(BodyOps, MaxBodyLen)
  /\ mg_lowered = "no"

\* the pass rewrites the module in place; a pass that raises leaves the
\* module to no further use
LowerMgpuDialect ==
  /\ mg_lowered = "no"
  /\ LET res == lower_mgpu_dialect(mg_module)
     IN  /\ mg_lowered' = IF res.err = "" THEN "yes" ELSE res.err
         /\ mg_module' = IF res.err = "" THEN res.ops ELSE mg_module
  /\ UNCHANGED notLower

NextLower == LowerMgpuDialect

SpecLower == InitLower /\ [][NextLower]_vars

ChunkArrays ==
  {Iota(<<n>>) : n \in 1..MaxPadLen} \cup {DocPadArray, Arr1(<<3, 1, 2>>)}

InitChunk ==
  /\ TwiceIdle
  /\ SearchIdle /\ RepeatIdle /\ PadIdle /\ HistIdle /\ DdIdle /\ EditIdle
  /\ FillIdle /\ DigitizeIdle /\ PairsIdle /\ LowerIdle
  /\ ch_a \in ChunkArrays
  /\ ch_pad_width \in (0..MaxPadWidth) \X (0..MaxPadWidth)
  /\ ch_mode \in MirrorModes
  /\ ch_reflect_type \in {"even", "odd"}
  /\ ch_array = ch_a
  /\ ch_padding = ch_pad_width[1]
  /\ ch_edge = slice_in_dim(ch_a, 0, 1, 0)
  /\ ch_pc = "before"

BuildStep(before) ==
  \E st \in {build_padding_step(ch_array, ch_padding, before, ch_edge, ch_mode,
                                ch_reflect_type, ch_a.shape[1], 0)} :
    /\ ch_array' = st.array
    /\ ch_padding' = st.padding
    /\ ch_edge' = st.edge
    /\ UNCHANGED <<ch_a, ch_pad_width, ch_mode, ch_reflect_type, ch_pc>>
    /\ UNCHANGED notChunk

\* one iteration of the loop of build_padding(array, pad_width[i][0], True)
ChunkBefore == ch_pc = "before" /\ ch_padding > 0 /\ BuildStep(TRUE)

\* the first loop exits; build_padding(array, pad_width[i][1], False) begins
BeginAfter ==
  /\ ch_pc = "before" /\ ~(ch_padding > 0)
  /\ ch_pc' = "after"
  /\ ch_padding' = ch_pad_width[2]
  /\ ch_edge' = slice_in_dim(ch_array, -1, ch_array.shape[1], 0)
  /\ UNCHANGED <<ch_a, ch_pad_width, ch_mode, ch_reflect_type, ch_array>>
  /\ UNCHANGED notChunk

\* one iteration of the loop of build_padding(array, pad_width[i][1], False)
ChunkAfter == ch_pc = "after" /\ ch_padding > 0 /\ BuildStep(FALSE)

\* the second loop exits
ChunkReturn ==
  /\ ch_pc = "after" /\ ~(ch_padding > 0)
  /\ ch_pc' = "done"
  /\ UNCHANGED <<ch_a, ch_pad_width, ch_mode, ch_reflect_type, ch_array,
                 ch_padding, ch_edge>>
  /\ UNCHANGED notChunk

NextChunk == ChunkBefore \/ BeginAfter \/ ChunkAfter \/ ChunkReturn

SpecChunk == InitChunk /\ [][NextChunk]_vars

\* the same loops on the shortest axes, where Python executes the
\* next statement of the loop as long as there is one
InitChunkFair == InitChunk /\ ch_a \in {Iota(<<n>>) : n \in 1..MaxFairLen}

SpecChunkFair == InitChunkFair /\ [][NextChunk]_vars /\ WF_vars(NextChunk)

ChunkLen(A) == A.shape[1]
ChunkAt(A, k) == A.elems[<<k>>]
ChunkAxisSize == ChunkLen(ch_a)
ChunkOffset == IF ch_mode = "reflect" /\ ChunkAxisSize > 1 THEN 1 ELSE 0
InChunkLoop == ch_pc \in {"before", "after"} /\ ch_padding > 0

\* what the iteration about to run makes of the loop's variables
ChunkStep ==
  build_padding_step(ch_array, ch_padding, ch_pc = "before", ch_edge, ch_mode,
                     ch_reflect_type, ChunkAxisSize, 0)

\* the elements added so far on the side being built
AddedOnSide ==
  IF ch_pc = "before" THEN ChunkLen(ch_array) - ChunkAxisSize
  ELSE ChunkLen(ch_array) - ChunkAxisSize - ch_pad_width[1]

\* C27: the chunk loop of one side terminates for every axis length n >= 1
\* and width p >= 0: each iteration adds curr_pad = min(remaining, n -
\* offset) >= 1 elements, offset being 1 only for 'reflect' with n > 1, the
\* remaining width strictly decreases, and on exit exactly p elements have
\* been added on that side.
C27_ChunkLoopTerminates ==
  /\ <>(ch_pc = "done")
  /\ [](InChunkLoop =>
          \A st \in {ChunkStep} :
            LET curr_pad == ChunkLen(st.array) - ChunkLen(ch_array)
            IN  /\ curr_pad = Min(ch_padding, ChunkAxisSize - ChunkOffset)
                /\ curr_pad >= 1
                /\ st.padding = ch_padding - curr_pad
                /\ st.padding < ch_padding /\ st.padding >= 0)
  /\ [][InChunkLoop =>
          /\ ch_padding' < ch_padding
          /\ ChunkLen(ch_array') - ChunkLen(ch_array)
               = ch_padding - ch_padding']_vars
  /\ [](/\ ch_pc = "before" => AddedOnSide + ch_padding = ch_pad_width[1]
        /\ ch_pc = "after" => AddedOnSide + ch_padding = ch_pad_width[2]
        /\ ch_pc = "done" => AddedOnSide = ch_pad_width[2] /\ ch_padding = 0)

\* C27 witness: on an axis of length 2 the after side of 'reflect' has taken
\* three chunks of one element.
C27_Witness ==
  /\ ch_pc = "done" /\ ch_mode = "reflect" /\ ch_reflect_type = "even"
  /\ ch_a = Iota(<<2>>) /\ ch_pad_width = <<0, 3>>
  /\ ch_array = Arr1(<<1, 2, 1, 2, 1>>)

\* the outermost element produced so far on the side being built
Outermost ==
  IF ch_pc = "before" THEN ChunkAt(ch_array, 0)
  ELSE ChunkAt(ch_array, ChunkLen(ch_array) - 1)

\* the elements in front of the original ones
AddedBefore == IF ch_pc = "before" THEN AddedOnSide ELSE ch_pad_width[1]

\* the iteration taken adds to ch_array, at distance t = 1..curr_pad beyond
\* its outermost element, 2 * edge - (the element mirrored to that place)
OddChunkAdded ==
  LET L == ChunkLen(ch_array)
      curr_pad == ChunkLen(ch_array') - L
      e == ChunkAt(ch_edge, 0)
  IN  \A t \in 1..curr_pad :
        IF ch_pc = "before"
        THEN ChunkAt(ch_array', curr_pad - t)
               = 2 * e - ChunkAt(ch_array, t - 1 + ChunkOffset)
        ELSE ChunkAt(ch_array', L - 1 + t)
               = 2 * e - ChunkAt(ch_array, L - t - ChunkOffset)

\* C29: with reflect_type = 'odd' a padded chunk is 2 * edge - the mirrored
\* chunk. On an axis of length n > 1 the edge is the outermost element
\* produced so far, so the before element at distance t of the first chunk is
\* 2*a[0] - a[t] ('reflect') or 2*a[0] - a[t-1] ('symmetric') and a further
\* chunk is reflected about the outermost element. On an axis of length 1 the
\* edge is never updated and every padded element equals the one original
\* element.
C29_OddReflection ==
  /\ [][InChunkLoop /\ ch_reflect_type = "odd" =>
          /\ OddChunkAdded
          /\ ChunkAxisSize = 1 => ch_edge' = ch_edge]_vars
  /\ [](ch_reflect_type = "odd" =>
          /\ ChunkAxisSize > 1 /\ InChunkLoop
               => ChunkAt(ch_edge, 0) = Outermost
          /\ ChunkAxisSize > 1 =>
               \A t \in 1..Min(AddedBefore, ChunkAxisSize - ChunkOffset) :
                 ChunkAt(ch_array, AddedBefore - t)
                   = 2 * ChunkAt(ch_a, 0) - ChunkAt(ch_a, t - 1 + ChunkOffset)
          /\ ChunkAxisSize = 1 =>
               /\ ch_edge = slice_in_dim(ch_a, 0, 1, 0)
               /\ \A k \in 0..(ChunkLen(ch_array) - 1) :
                    ChunkAt(ch_array, k) = ChunkAt(ch_a, 0))

\* C29 witness: odd 'reflect' of [3, 1, 2] by three elements in front takes
\* a chunk of two about 3 and a chunk of one about 4.
C29_Witness ==
  /\ ch_pc = "done" /\ ch_mode = "reflect" /\ ch_reflect_type = "odd"
  /\ ch_a = Arr1(<<3, 1, 2>>) /\ ch_pad_width = <<3, 0>>
  /\ ch_array = Arr1(<<3, 4, 5, 3, 1, 2>>)

\* the stepwise loops return what _pad_symmetric_or_reflect returns
ChunkLoopsAgree ==
  ch_pc = "done" =>
    Ok(ch_array) = _pad_symmetric_or_reflect(ch_a, <<ch_pad_width>>, ch_mode,
                                             ch_reflect_type)

(***************************************************************************)
(* The two-call specification: one operation is called twice, with the     *)
(* same shapes and the same static parameters and with other element       *)
(* values the second time. The 'scan' search is run one iteration per      *)
(* step, the first call to its return and then the second.                 *)
(***************************************************************************)
\* the element values of the second call, from those of the first
Changes == {"zero", "negated", "next"}
Change(v, c) == CASE c = "zero" -> 0 [] c = "negated" -> -v [] OTHER -> v + 1
ChangedArr(A, c) == MkArray(A.shape, LAMBDA idx : Change(A.elems[idx], c))
ChangedSeq(x, c) == Mat([k \in 1..Len(x) |-> Change(x[k], c)])
ChangedOpt(o, c) == IF o = NoneArg THEN NoneArg ELSE Some(ChangedArr(o[1], c))

\* what is observed of a call: the exception, the shape and the value
ArrObs(r) ==
  [err |-> r.err, shape |-> IF r.err = "" THEN r.arr.shape ELSE <<>>, value |-> r]
SeqObs(x) == [err |-> "", shape |-> <<Len(x)>>, value |-> x]
SeqResObs(r) ==
  [err |-> r.err, shape |-> IF r.err = "" THEN <<Len(r.seq)>> ELSE <<>>, value |-> r]
HistObs(r) ==
  [err |-> r.err, shape |-> <<Len(r.counts), Len(r.bin_edges)>>, value |-> r]

InitTwice ==
  /\ SearchIdle /\ RepeatIdle /\ PadIdle /\ HistIdle /\ DdIdle /\ EditIdle
  /\ FillIdle /\ DigitizeIdle /\ PairsIdle /\ LowerIdle /\ ChunkIdle
  /\ tw_op = "none" /\ tw_args = <<>> /\ tw_out = <<>> /\ tw_scan = <<>>

Called(op, first, second, r1, r2) ==
  /\ tw_op = "none"
  /\ tw_op' = op
  /\ tw_args' = <<first, second>>
  /\ tw_out' = <<r1, r2>>
  /\ UNCHANGED tw_scan
  /\ UNCHANGED notTwice

PadTwice ==
  /\ tw_op = "none"
  /\ \E A \in PadArrays, mode \in NamedModes, c \in Changes :
       \E w \in PadWidths(A), kw \in PadKwargs(mode) :
         LET A2 == ChangedArr(A, c)
             kw2 == [kw EXCEPT !.constant_values = ChangedOpt(@, c),
                               !.end_values = ChangedOpt(@, c)]
         IN  Called("pad",
                    [array |-> A, pad_width |-> w, mode |-> mode, kwargs |-> kw],
                    [array |-> A2, pad_width |-> w, mode |-> mode, kwargs |-> kw2],
                    ArrObs(pad(A, w, mode, kw, NoUndefined)),
                    ArrObs(pad(A2, w, mode, kw2, NoUndefined)))

SearchsortedTwice ==
  /\ tw_op = "none"
  /\ \E in \in SearchInputs, sd \in {"left", "right"}, m \in Methods :
       \E c \in Changes :
         LET a2 == ChangedSeq(in[1], c)
             v2 == ChangedSeq(in[2], c)
         IN  Called("searchsorted",
                    [a |-> in[1], v |-> in[2], side |-> sd, method |-> m],
                    [a |-> a2, v |-> v2, side |-> sd, method |-> m],
                    SeqObs(searchsorted(in[1], in[2], sd, m)),
                    SeqObs(searchsorted(a2, v2, sd, m)))

DigitizeTwice ==
  /\ tw_op = "none"
  /\ \E x \in DigitizeQueries, bins \in DigitizeBins, right \in BOOLEAN :
       \E c \in Changes :
         LET x2 == ChangedSeq(x, c)
             bins2 == ChangedArr(bins, c)
         IN  Called("digitize",
                    [x |-> x, bins |-> bins, right |-> right],
                    [x |-> x2, bins |-> bins2, right |-> right],
                    SeqResObs(digitize(x, bins, right, NoneArg)),
                    SeqResObs(digitize(x2, bins2, right, NoneArg)))

\* histogram with bins an integer
HistogramTwice ==
  /\ tw_op = "none"
  /\ \E k \in 0..MaxBins, x \in SeqsUpTo(HistValues, MaxSamples) :
       \E r \in HistRanges, w \in HistWeights(x), c \in Changes :
         LET unit == 2 * MaxOf({k, 1})
             a1 == Scaled(x, unit)
             a2 == Scaled(ChangedSeq(x, c), unit)
             rg == ScaledRange(r, unit)
             w2 == IF w = NoneArg THEN w ELSE Some(ChangedSeq(w[1], c))
         IN  /\ r # NoneArg => r[1][1] <= r[1][2]
             /\ Called("histogram",
                       [a |-> a1, bins |-> k, range |-> rg, weights |-> w],
                       [a |-> a2, bins |-> k, range |-> rg, weights |-> w2],
                       HistObs(histogram(a1, Scalar(k), rg, w, unit)),
                       HistObs(histogram(a2, Scalar(k), rg, w2, unit)))

\* repeat with total_repeat_length; the counts stay non-negative
RepeatTwice ==
  /\ tw_op = "none"
  /\ \E A \in RepeatArrays, L \in 0..MaxTotal, c \in Changes :
       \E axis \in RepeatAxes(A), cr \in {"zero", "next"} :
         \E reps \in RepeatCounts(A, axis) :
           LET A2 == ChangedArr(A, c)
               reps2 == ChangedArr(reps, cr)
           IN  Called("repeat",
                      [a |-> A, repeats |-> reps, axis |-> axis,
                       total_repeat_length |-> L],
                      [a |-> A2, repeats |-> reps2, axis |-> axis,
                       total_repeat_length |-> L],
                      ArrObs(repeat(A, reps, axis, Some(L))),
                      ArrObs(repeat(A2, reps2, axis, Some(L))))

\* insert: a slice is static, an index or an array of indices is data
InsertTwice ==
  /\ tw_op = "none"
  /\ \E A \in EditArrays, c \in Changes :
       \E axis \in EditAxes(A) :
         \E obj \in InsertObjs(EditedLen(A, axis)) :
           \E v \in InsertValues(A, axis, obj) :
             LET A2 == ChangedArr(A, c)
                 obj2 == IF IsSlice(obj) THEN obj ELSE ChangedArr(obj, c)
                 v2 == ChangedArr(v, c)
             IN  Called("insert",
                        [arr |-> A, obj |-> obj, values |-> v, axis |-> axis],
                        [arr |-> A2, obj |-> obj2, values |-> v2, axis |-> axis],
                        ArrObs(insert(A, obj, v, axis)),
                        ArrObs(insert(A2, obj2, v2, axis)))

\* delete with assume_unique_indices=True: an integer, a slice and a mask
\* are static, an array of indices is data
DeleteTwice ==
  /\ tw_op = "none"
  /\ \E A \in EditArrays, c \in Changes :
       \E axis \in EditAxes(A) :
         \E obj \in DeleteIndexObjs(EditedLen(A, axis))
                      \cup DeleteVectorObjs(EditedLen(A, axis))
                      \cup DeleteSliceObjs
                      \cup DeleteMaskObjs(EditedLen(A, axis)) :
           LET A2 == ChangedArr(A, c)
               data == ~IsSlice(obj) /\ ~IsMask(obj) /\ ndim(obj) = 1
               obj2 == IF data THEN ChangedArr(obj, c) ELSE obj
           IN  Called("delete",
                      [arr |-> A, obj |-> obj, axis |-> axis],
                      [arr |-> A2, obj |-> obj2, axis |-> axis],
                      ArrObs(delete(A, obj, axis, TRUE)),
                      ArrObs(delete(A2, obj2, axis, TRUE)))

FillDiagonalTwice ==
  /\ tw_op = "none"
  /\ \E a \in FillArrays, val \in FillValues, c \in Changes :
       \E wrap \in BOOLEAN, inplace \in BOOLEAN :
         LET a2 == ChangedArr(a, c)
             val2 == ChangedArr(val, c)
         IN  Called("fill_diagonal",
                    [a |-> a, val |-> val, wrap |-> wrap, inplace |-> inplace],
                    [a |-> a2, val |-> val2, wrap |-> wrap, inplace |-> inplace],
                    ArrObs(fill_diagonal(a, val, wrap, inplace)),
                    ArrObs(fill_diagonal(a2, val2, wrap, inplace)))

\* _searchsorted_via_scan of one query element, entered for the first call
Lane(pc) == [low |-> 0, high |-> 0, level |-> 0, pc |-> pc]

ScanTwice ==
  /\ tw_op = "none"
  /\ \E arr \in AnyRefs \ {<<>>}, q \in SearchValues, sd \in {"left", "right"} :
       \E c \in Changes :
         /\ tw_op = "none"
         /\ tw_op' = "scan"
         /\ tw_args' = <<[sorted_arr |-> arr, query |-> q, side |-> sd],
                         [sorted_arr |-> ChangedSeq(arr, c),
                          query |-> Change(q, c), side |-> sd]>>
         /\ tw_scan' = <<[Lane("loop") EXCEPT !.high = Len(arr)], Lane("waiting")>>
         /\ UNCHANGED tw_out
         /\ UNCHANGED notTwice

\* the call that is running
Running == IF tw_scan[1].pc = "loop" THEN 1 ELSE 2
InScan == tw_op = "scan" /\ \E i \in 1..2 : tw_scan[i].pc = "loop"
ScanLength == n_levels(Len(tw_args[Running].sorted_arr))

\* one iteration of the scan: body_fun
ScanIterate ==
  /\ InScan
  /\ tw_scan[Running].level < ScanLength
  /\ LET i == Running
         st == body_fun(tw_args[i].sorted_arr, tw_args[i].side,
                        tw_args[i].query, tw_scan[i].low, tw_scan[i].high)
     IN  tw_scan' = [tw_scan EXCEPT ![i] =
                       [@ EXCEPT !.low = st[1], !.high = st[2],
                                 !.level = @ + 1]]
  /\ UNCHANGED <<tw_op, tw_args, tw_out>>
  /\ UNCHANGED notTwice

\* the scan ends: return carry[1]; the second call is entered
ScanExit ==
  /\ InScan
  /\ ~(tw_scan[Running].level < ScanLength)
  /\ IF Running = 1
     THEN /\ tw_scan' = <<[tw_scan[1] EXCEPT !.pc = "done"],
                          [Lane("loop") EXCEPT
                             !.high = Len(tw_args[2].sorted_arr)]>>
          /\ UNCHANGED tw_out
     ELSE /\ tw_scan' = [tw_scan EXCEPT ![2] = [@ EXCEPT !.pc = "done"]]
          /\ tw_out' = <<SeqObs(<<tw_scan[1].high>>),
                         SeqObs(<<tw_scan[2].high>>)>>
  /\ UNCHANGED <<tw_op, tw_args>>
  /\ UNCHANGED notTwice

NextTwice ==
  \/ DeleteTwice \/ InsertTwice \/ FillDiagonalTwice \/ SearchsortedTwice
  \/ DigitizeTwice \/ HistogramTwice \/ RepeatTwice \/ PadTwice
  \/ ScanTwice \/ ScanIterate \/ ScanExit

SpecTwice == InitTwice /\ [][NextTwice]_vars

\* C30: element values influence neither the shape nor the control flow: of
\* pad, searchsorted, digitize, histogram with an integer bin count, repeat
\* with total_repeat_length, insert, delete with assume_unique_indices=True
\* and fill_diagonal, two calls with the same shapes and static parameters
\* and other element values both return, with outputs of one shape, or both
\* raise the same exception; and the 'scan' search runs the same number of
\* bisection iterations in both.
C30_DataIndependence ==
  /\ tw_out # <<>> =>
       /\ tw_out[1].err = tw_out[2].err
       /\ tw_out[1].shape = tw_out[2].shape
  /\ (tw_op = "scan" /\ tw_scan[2].pc = "done") =>
       tw_scan[1].level = tw_scan[2].level

\* C30 witness: delete with assume_unique_indices=True of [11, 12, 13] at
\* [0] and of [12, 13, 14] at [1] returned [12, 13] and [12, 14].
C30_Witness ==
  /\ tw_op = "delete"
  /\ tw_args[1].arr = Arr1(<<11, 12, 13>>) /\ tw_args[1].axis = Some(0)
  /\ tw_args[1].obj = Arr1(<<0>>) /\ tw_args[2].obj = Arr1(<<1>>)
  /\ tw_out[1].value = Ok(Arr1(<<12, 13>>))
  /\ tw_out[2].value = Ok(Arr1(<<12, 14>>))
  /\ tw_out[1].shape = <<2>>

\* two scans of a reference array of length 3 ran their two iterations and
\* returned different indices
ScanRanTwice ==
  /\ tw_op = "scan" /\ tw_scan[2].pc = "done"
  /\ Len(tw_args[1].sorted_arr) = 3
  /\ tw_scan[1].level = 2
  /\ tw_out[1].value # tw_out[2].value

=============================================================================
